---- MODULE Spec2Model ----
(***************************************************************************)
(* Verification model of wumpus-archiver's background job subsystem:       *)
(* the scrape / download / transfer job managers (api/*_manager.py), the   *)
(* bot session they drive (bot/scraper.py) and the channel cursor kept by  *)
(* the scrape engine (storage/repositories.py).                            *)
(*                                                                         *)
(* Every manager runs on one asyncio event loop.  A coroutine is atomic    *)
(* between two awaits, so each action below is one such segment: a public  *)
(* method call, or one resumption of a background task.                    *)
(***************************************************************************)
EXTENDS Integers, Sequences, FiniteSets, TLC

(***************************************************************************)
(* Bounds of the model                                                     *)
(***************************************************************************)
MaxJobs == 2          \* scrape jobs started in one behaviour
MaxManagerJobs == 1   \* scrape jobs started beside the other two managers
MaxCancels == 2       \* force-close tasks spawned by cancel() in one behaviour
MaxHistoryJobs == 52  \* scrape jobs run one after the other to fill the history
MaxMessageId == 3     \* message ids the remote channel hands out
MaxScrapes == 3       \* scrapes of the channel in one behaviour
MaxRuns == 2          \* download runs in one behaviour
MaxAttachments == 2   \* messages with an attachment beside a download run
MaxRetries == 4       \* the largest max_retries a downloader is built with
MaxConcurrency == 2   \* the largest concurrency a downloader is built with
MaxChannels == 2      \* the most channels of the guild a scrape job walks
MaxGuildJobs == 2     \* scrape jobs whose engine is followed channel by channel
ManyChannels == 21    \* the channels of a guild none of which can be read
MaxUpsertIds == 2     \* ids of the records handed to the repositories' upsert
MaxCount == 2         \* the largest count of a reaction handed to upsert
MaxSelected == 1      \* the most channel ids a scrape job is started with
MaxThreads == 1       \* the most threads nested under the selected channels

(***************************************************************************)
(* Program constants                                                       *)
(***************************************************************************)
HistoryCap == 50      \* scrape_manager.py: "Keep only last 50 jobs"
BATCH_SIZE == 1000    \* transfer_manager.py
NumTables == 6        \* len(TABLES), transfer_manager.py
batch_size == 100     \* _scrape_channel, scraper.py
fetch_batch_size == 100     \* _download_channel_images, downloader.py
DEFAULT_CONCURRENCY == 5    \* downloader.py
DEFAULT_MAX_RETRIES == 3    \* downloader.py
SUMMARY_ERRORS == 20        \* DownloadStats.summary: self.errors[:20]

VARIABLES
    \* ---- ScrapeJobManager ----
    jobs,              \* the ScrapeJob objects ever allocated, by job number
    current_job,       \* self._current_job: 0 (None) or a job number
    cancel_requested,  \* self._cancel_requested
    bot,               \* self._bot: 0 (None) or the number of an ArchiverBot
    history,           \* self._history: snapshots, oldest first
    task,              \* position of each job's _run_scrape task
    bots,              \* the ArchiverBot objects: session state and ready event
    force_close,       \* the _force_close_bot tasks spawned by cancel()
    raised,            \* what the last start_scrape call raised ("" = nothing)
    \* ---- DownloadManager ----
    attachments_path,  \* self._attachments_path is configured
    dl_job,            \* self._job (status "none" = None)
    dl_task,           \* position of the _run_download task
    dl_must_cancel,    \* Task.cancel() was called on it and not yet delivered
    dl_raised,         \* what the last start_download call raised
    \* ---- TransferManager ----
    tr_job,            \* self._job (status "none" = None)
    tr_task,           \* position of the _run_transfer task
    cancel_event,      \* self._cancel_event
    tr_table,          \* index in TABLES of the table being counted / copied
    tr_offset,         \* _transfer_table's offset
    tr_batch,          \* len(rows) of the batch read and not yet written
    src_rows,          \* rows of each table in the source store
    tgt_rows,          \* rows of each table in the target store
    tgt_postgres,      \* the target backend is PostgreSQL
    tgt_sequence,      \* reactions_id_seq of the target: the last id it reached
    tr_raised,         \* what the last start_transfer call raised
    tr_cancel_early,   \* cancel() returned True before all rows were copied
    tr_restart,        \* the job was started after one that ended early,
                       \* with some table copied and some table not
    tr_failed_phase,   \* the phase of the job in which a store call raised
    \* ---- one channel: the remote platform and the entity store ----
    remote,            \* ids of the messages the remote channel holds
    remote_rich,       \* the messages posted with an attachment and a reaction
    next_id,           \* the next snowflake the platform hands out
    channel,           \* the stored Channel row
    messages,          \* the stored Message rows of the channel (their ids)
    attachments,       \* the stored Attachment rows
    reactions,         \* the stored Reaction rows
    clock,             \* datetime.now(): the number of scrapes so far
    ch_result,         \* what the last _scrape_channel call returned or raised
    \* ---- the image downloader on the channel's attachments ----
    files,             \* the files of the output directory (their relative paths)
    max_retries,       \* ImageDownloader.max_retries
    concurrency,       \* ImageDownloader.concurrency
    dr_pc,             \* where the download run is: idle, read, gather
    batch,             \* the Attachment rows the run loaded for its batch
    workers,           \* the _download_attachment tasks of the batch
    permits,           \* the value of ImageDownloader._semaphore
    stats,             \* ImageDownloader.stats
    runs,              \* download runs started so far
    \* ---- ArchiverBot.scrape_guild and the Guild row it writes ----
    guild,             \* the committed Guild row
    engines            \* the scrape_guild call of each job that made one

scrapeVars == <<jobs, current_job, cancel_requested, bot, history, task, bots,
                force_close, raised>>

downloadVars == <<attachments_path, dl_job, dl_task, dl_must_cancel, dl_raised>>

transferVars == <<tr_job, tr_task, cancel_event, tr_table, tr_offset, tr_batch,
                  src_rows, tgt_rows, tgt_postgres, tgt_sequence, tr_raised, tr_cancel_early,
                  tr_restart, tr_failed_phase>>

channelVars == <<remote, remote_rich, next_id, channel, messages, attachments,
                 reactions, clock, ch_result>>

fetchVars == <<files, max_retries, concurrency, dr_pc, batch, workers, permits,
               stats, runs>>

guildVars == <<guild, engines>>

vars == <<scrapeVars, downloadVars, transferVars, channelVars, fetchVars,
          guildVars>>

(***************************************************************************)
(* JobStatus (scrape_manager.py)                                           *)
(***************************************************************************)
PENDING == "pending"
CONNECTING == "connecting"
SCRAPING == "scraping"
COMPLETED == "completed"
FAILED == "failed"
CANCELLED == "cancelled"

JobStatus == {PENDING, CONNECTING, SCRAPING, COMPLETED, FAILED, CANCELLED}

\* ScrapeJob(...) as start_scrape builds it; the timestamps are kept as
\* "set / not set", the error message as text ("" = None), progress.errors
\* (and result["errors"], the same list) as the number of its strings,
\* channel_ids as the number of ids given (0: None, the whole guild);
\* channels_total, channels_done and messages_scraped are the fields of
\* job.progress.
ScrapeJobWith(id, channel_ids) ==
    [id |-> id, status |-> PENDING, started_at |-> TRUE,
     completed_at |-> FALSE, error_message |-> "", errors |-> 0,
     channel_ids |-> channel_ids, channels_total |-> 0, channels_done |-> 0,
     messages_scraped |-> 0]

ScrapeJob(id) == ScrapeJobWith(id, 0)

JobIds == 1..Len(jobs)

Min(a, b) == IF a < b THEN a ELSE b
Max(a, b) == IF a > b THEN a ELSE b

(***************************************************************************)
(* ScrapeJobManager.is_busy                                                *)
(***************************************************************************)
IsBusy ==
    /\ current_job # 0
    /\ jobs[current_job].status \in {PENDING, CONNECTING, SCRAPING}

(***************************************************************************)
(* ScrapeJobManager.history: most recent first                             *)
(***************************************************************************)
Reversed(s) == [i \in 1..Len(s) |-> s[Len(s) + 1 - i]]

History == Reversed(history)

(***************************************************************************)
(* The tail of _run_scrape's finally block: archive to history.            *)
(*   self._history.append(self._current_job.model_copy())                  *)
(*   if len(self._history) > 50: self._history = self._history[-50:]       *)
(***************************************************************************)
KeepLastKeepsFirst(h) ==
    IF Len(h) > HistoryCap THEN SubSeq(h, 1, HistoryCap) ELSE h

KeepLast(h) ==
    IF Len(h) > HistoryCap THEN SubSeq(h, Len(h) - HistoryCap + 1, Len(h)) ELSE h

Archived(h, js, cur) ==
    IF cur # 0 THEN KeepLast(Append(h, js[cur])) ELSE h

(***************************************************************************)
(* ArchiverBot.close: discord's Client.close marks the session closed at   *)
(* once; the caller is then suspended until the gateway task has ended.    *)
(***************************************************************************)
BotClosed(bs, b) == [bs EXCEPT ![b].state = "closed"]

OpenBots == {b \in 1..Len(bots) : bots[b].state \in {"starting", "ready"}}

(***************************************************************************)
(* Initial state: ScrapeJobManager.__init__                                *)
(***************************************************************************)
InitScrape ==
    /\ jobs = <<>>
    /\ current_job = 0
    /\ cancel_requested = FALSE
    /\ bot = 0
    /\ history = <<>>
    /\ task = <<>>
    /\ bots = <<>>
    /\ force_close = <<>>
    /\ raised = ""

(***************************************************************************)
(* ScrapeJobManager.start_scrape                                           *)
(***************************************************************************)
\* limit: how many jobs the behaviour may allocate; channel_ids: how many
\* channel ids the caller selected (0: none, the whole guild is scraped).
StartScrapeWith(limit, channel_ids) ==
    /\ IF IsBusy
       THEN /\ raised' = "AlreadyRunning"
            /\ UNCHANGED <<jobs, current_job, cancel_requested, task, bots>>
       ELSE /\ Len(jobs) < limit
            /\ jobs' = Append(jobs, ScrapeJobWith(Len(jobs) + 1, channel_ids))
            /\ current_job' = Len(jobs) + 1
            /\ cancel_requested' = FALSE
            /\ task' = Append(task, "created")
            /\ bots' = Append(bots, [state |-> "none", ready_event |-> FALSE])
            /\ raised' = ""
    /\ UNCHANGED <<bot, history, force_close>>

\* start_scrape for the whole guild
StartScrapeUpTo(limit) == StartScrapeWith(limit, 0)

StartScrape == StartScrapeUpTo(MaxJobs)

(***************************************************************************)
(* ScrapeJobManager.cancel                                                 *)
(***************************************************************************)
Cancel ==
    /\ IsBusy
    /\ cancel_requested' = TRUE
    /\ jobs' = [jobs EXCEPT ![current_job].status = CANCELLED,
                            ![current_job].completed_at = TRUE]
    /\ IF bot # 0
       THEN /\ Len(force_close) < MaxCancels
            /\ force_close' = Append(force_close, "created")
       ELSE UNCHANGED force_close
    /\ UNCHANGED <<current_job, bot, history, task, bots, raised>>

(***************************************************************************)
(* ScrapeJobManager._force_close_bot                                       *)
(***************************************************************************)
ForceCloseBegin(k) ==
    /\ force_close[k] = "created"
    /\ IF bot # 0
       THEN /\ bots' = BotClosed(bots, bot)
            /\ force_close' = [force_close EXCEPT ![k] = "closing"]
       ELSE /\ force_close' = [force_close EXCEPT ![k] = "done"]
            /\ UNCHANGED bots
    /\ UNCHANGED <<jobs, current_job, cancel_requested, bot, history, task, raised>>

ForceCloseEnd(k) ==
    /\ force_close[k] = "closing"
    /\ bot' = 0
    /\ force_close' = [force_close EXCEPT ![k] = "done"]
    /\ UNCHANGED <<jobs, current_job, cancel_requested, history, task,
                   bots, raised>>

(***************************************************************************)
(* ArchiverBot.start spawns client.start(token) as a task of its own and   *)
(* waits for the ready event.  The gateway task either logs in and fires   *)
(* on_ready, or ends with the login / connection exception, which stays in *)
(* the task object: nothing awaits it.                                     *)
(***************************************************************************)
BotOnReady(b) ==
    /\ bots[b].state = "starting"
    /\ bots' = [bots EXCEPT ![b].state = "ready", ![b].ready_event = TRUE]
    /\ UNCHANGED <<jobs, current_job, cancel_requested, bot, history, task, force_close, raised>>

BotStartFails(b) ==
    /\ bots[b].state = "starting"
    /\ bots' = [bots EXCEPT ![b].state = "dead"]
    /\ UNCHANGED <<jobs, current_job, cancel_requested, bot, history, task, force_close, raised>>

(***************************************************************************)
(* ArchiverBot.scrape_guild (bot/scraper.py), the call _run_scrape awaits  *)
(* while the job is scraping, with the session scope it runs in            *)
(* (Database.session, storage/database.py) and the Guild row               *)
(* (GuildRepository, storage/repositories.py).                             *)
(***************************************************************************)
\* No call made: the state of scrape_guild's locals before the call.
\*   pc: idle, channels (in the loops over channels and threads), returned,
\*       raised;
\*   session: none, open, closed;
\*   saved_guild: the session holds the upserted Guild row, uncommitted;
\*   increments: "scrape_count = scrape_count + 1" statements the session
\*       has executed and not committed;
\*   errors: len(errors).
\* channels_scraped and messages_scraped are also the values of
\* cumulative_channels and cumulative_messages of _run_scrape's callbacks,
\* which grow by the same amounts at the same points.
IdleEngine ==
    [pc |-> "idle", total |-> 0, next |-> 0, channels_scraped |-> 0,
     messages_scraped |-> 0, errors |-> 0, session |-> "none",
     saved_guild |-> FALSE, increments |-> 0, raised |-> ""]

EngineOf(j) == IF j <= Len(engines) THEN engines[j] ELSE IdleEngine

\* engines with job j's call set to e
WithEngine(j, e) ==
    [i \in 1..Max(j, Len(engines)) |-> IF i = j THEN e ELSE EngineOf(i)]

InitGuild ==
    /\ guild = [exists |-> FALSE, scrape_count |-> 0]
    /\ engines = <<>>

\* session.commit(): the Guild row with the session's writes applied
Committed(store, e) ==
    [exists |-> store.exists \/ e.saved_guild,
     scrape_count |-> store.scrape_count + e.increments]

\* the scope commits however it is left
SessionExitAlwaysCommitting(store, e, exception) == Committed(store, e)

\* Database.session, after the yield: "await session.commit()" when the
\* body ended normally; "except Exception: await session.rollback(); raise"
\* when it raised (exception); "finally: await session.close()".
SessionExit(store, e, exception) ==
    IF exception THEN store ELSE Committed(store, e)

\* scrape_guild up to its first channel.  found: client.get_guild knows the
\* guild ("if not guild: raise ValueError"); total: the channels and threads
\* the loops will walk; fails: _save_guild raises inside the session scope.
GuildScrapeBegin(j, found, total, fails) ==
    /\ task[j] = "scraping"
    /\ EngineOf(j).pc = "idle"
    /\ UNCHANGED jobs
    /\ IF ~found
       THEN /\ engines' = WithEngine(j, [IdleEngine EXCEPT
                                           !.pc = "raised",
                                           !.raised = "ValueError"])
            /\ UNCHANGED guild
       ELSE IF fails
       THEN /\ engines' = WithEngine(j, [IdleEngine EXCEPT
                                           !.pc = "raised",
                                           !.session = "closed",
                                           !.raised = "SQLAlchemyError"])
            /\ guild' = SessionExit(guild, [IdleEngine EXCEPT
                                              !.saved_guild = TRUE], TRUE)
       ELSE /\ engines' = WithEngine(j, [IdleEngine EXCEPT
                                           !.pc = "channels",
                                           !.session = "open",
                                           !.saved_guild = TRUE,
                                           !.total = total,
                                           !.next = 1])
            /\ UNCHANGED guild

ChannelOutcomes == {"ok", "Forbidden", "Exception"}

\* job.progress after one pass of a channel loop in which _scrape_channel
\* saved `saved` messages before it returned or raised.  e: the engine's
\* locals before the pass.
\*   progress_callback(channel.name, 0), then progress_callback(channel.name,
\*   stats["messages"]) at every commit of batch_size messages:
\*       messages_scraped = cumulative_messages + message_count;
\*   and when _scrape_channel returned, channel_done_callback:
\*       cumulative_messages += ch_messages; cumulative_channels += 1;
\*       channels_done = cumulative_channels;
\*       messages_scraped = cumulative_messages.
Reported(job, e, outcome, saved) ==
    IF outcome = "ok"
    THEN [job EXCEPT !.channels_done = e.channels_scraped + 1,
                     !.messages_scraped = e.messages_scraped + saved]
    ELSE [job EXCEPT !.messages_scraped =
                        e.messages_scraped + batch_size * (saved \div batch_size)]

\* an error in one channel leaves the loop
GuildScrapeChannelRaising(j, outcome, saved) ==
    /\ j <= Len(engines)
    /\ engines[j].pc = "channels"
    /\ engines[j].next <= engines[j].total
    /\ outcome = "ok" => saved > 0
    /\ guild' = Committed(guild, engines[j])
    /\ jobs' = [jobs EXCEPT ![j] = Reported(@, engines[j], outcome, saved)]
    /\ engines' = [engines EXCEPT
          ![j].saved_guild = FALSE,
          ![j].increments = 0,
          ![j].next = @ + 1,
          ![j].channels_scraped = IF outcome = "ok" THEN @ + 1 ELSE @,
          ![j].messages_scraped = IF outcome = "ok" THEN @ + saved ELSE @,
          ![j].pc = IF outcome = "ok" THEN @ ELSE "raised",
          ![j].session = IF outcome = "ok" THEN @ ELSE "closed",
          ![j].raised = IF outcome = "ok" THEN @ ELSE outcome]

\* One pass of a "for channel in ...: try: ... except" loop of scrape_guild
\* or scrape_channels.  _scrape_channel upserts the channel and commits
\* (whatever the session holds); then it returns its stats (ok:
\* channels_scraped += 1, messages_scraped += the messages it saved, at
\* least one), or discord.Forbidden or another exception leaves it
\* (errors.append) after it saved `saved` messages.
GuildScrapeChannel(j, outcome, saved) ==
    /\ j <= Len(engines)
    /\ engines[j].pc = "channels"
    /\ engines[j].next <= engines[j].total
    /\ outcome = "ok" => saved > 0
    /\ guild' = Committed(guild, engines[j])
    /\ jobs' = [jobs EXCEPT ![j] = Reported(@, engines[j], outcome, saved)]
    /\ engines' = [engines EXCEPT
          ![j].saved_guild = FALSE,
          ![j].increments = 0,
          ![j].next = @ + 1,
          ![j].channels_scraped = IF outcome = "ok" THEN @ + 1 ELSE @,
          ![j].messages_scraped = IF outcome = "ok" THEN @ + saved ELSE @,
          ![j].errors = IF outcome = "ok" THEN @ ELSE @ + 1]

\* After the loops: guild_repo.update_scrape_metadata(guild_id) and the end
\* of the session scope.  fails: the statement or the commit raises.
GuildScrapeEnd(j, fails) ==
    /\ j <= Len(engines)
    /\ UNCHANGED jobs
    /\ engines[j].pc = "channels"
    /\ engines[j].next > engines[j].total
    /\ LET e == [engines[j] EXCEPT !.increments = @ + 1]
       IN  /\ guild' = SessionExit(guild, e, fails)
           /\ engines' = [engines EXCEPT
                 ![j] = [e EXCEPT
                           !.pc = IF fails THEN "raised" ELSE "returned",
                           !.session = "closed",
                           !.saved_guild = FALSE,
                           !.increments = 0,
                           !.raised = IF fails THEN "SQLAlchemyError" ELSE ""]]

(***************************************************************************)
(* ScrapeJobManager._run_scrape(job, token), one action per segment        *)
(* between awaits.  j is the task's own `job` argument.                    *)
(***************************************************************************)

\* try: job.status = CONNECTING; bot = ArchiverBot(...); self._bot = bot;
\* await bot.start()
RunScrapeBegin(j) ==
    /\ task[j] = "created"
    /\ jobs' = [jobs EXCEPT ![j].status = CONNECTING]
    /\ bots' = [bots EXCEPT ![j].state = "starting"]
    /\ bot' = j
    /\ task' = [task EXCEPT ![j] = "await_start"]
    /\ UNCHANGED <<current_job, cancel_requested, history, force_close,
                   raised>>

\* bot.start() returned.  if self._cancel_requested: await bot.close() ...
\* else: job.status = SCRAPING; "if job.channel_ids:
\* job.progress.channels_total = len(job.channel_ids)"; stats = await
\* bot.scrape_...(...)
RunScrapeConnected(j) ==
    /\ task[j] = "await_start"
    /\ bots[j].ready_event
    /\ IF cancel_requested
       THEN /\ bots' = BotClosed(bots, j)
            /\ task' = [task EXCEPT ![j] = "early_close"]
            /\ UNCHANGED jobs
       ELSE /\ jobs' = [jobs EXCEPT
                           ![j].status = SCRAPING,
                           ![j].channels_total =
                               IF jobs[j].channel_ids # 0
                               THEN jobs[j].channel_ids ELSE @]
            /\ task' = [task EXCEPT ![j] = "scraping"]
            /\ UNCHANGED bots
    /\ UNCHANGED <<current_job, cancel_requested, bot, history,
                   force_close, raised>>

\* The finally block up to its await: "if self._bot is not None: await
\* self._bot.close()".  With no bot it runs through to the archive step.
\* js, b: the jobs and self._bot as the try / except part left them.
Finally(j, js, b) ==
    IF b # 0
    THEN /\ bots' = BotClosed(bots, b)
         /\ task' = [task EXCEPT ![j] = "finally_close"]
         /\ bot' = b
         /\ UNCHANGED history
    ELSE /\ history' = Archived(history, js, current_job)
         /\ task' = [task EXCEPT ![j] = "done"]
         /\ bot' = b
         /\ UNCHANGED bots

\* await bot.close() returned in the cancel branch: self._bot = None; return
RunScrapeEarlyReturn(j) ==
    /\ task[j] = "early_close"
    /\ UNCHANGED jobs
    /\ Finally(j, jobs, 0)
    /\ UNCHANGED <<current_job, cancel_requested, force_close, raised>>

\* The engine returned its stats: "if not job.progress.channels_total:
\* job.progress.channels_total = stats[channels_scraped]" (the branch of a
\* whole-guild scrape); job.status = COMPLETED; job.progress takes
\* channels_done, messages_scraped and errors from the stats.
RunScrapeCompleted(j) ==
    /\ task[j] = "scraping"
    /\ jobs' = [jobs EXCEPT
                   ![j].status = COMPLETED,
                   ![j].completed_at = TRUE,
                   ![j].channels_total =
                       IF jobs[j].channel_ids = 0 /\ @ = 0
                       THEN EngineOf(j).channels_scraped ELSE @,
                   ![j].channels_done = EngineOf(j).channels_scraped,
                   ![j].messages_scraped = EngineOf(j).messages_scraped,
                   ![j].errors = EngineOf(j).errors]
    /\ Finally(j, jobs', bot)
    /\ UNCHANGED <<current_job, cancel_requested, force_close, raised>>

\* The engine raised: except Exception as e: job.status = FAILED; ...
RunScrapeFailed(j) ==
    /\ task[j] = "scraping"
    /\ jobs' = [jobs EXCEPT ![j].status = FAILED, ![j].completed_at = TRUE,
                            ![j].error_message = "exception text"]
    /\ Finally(j, jobs', bot)
    /\ UNCHANGED <<current_job, cancel_requested, force_close, raised>>

\* finally: self._bot.close() returned: self._bot = None; archive to history
RunScrapeFinallyClosed(j) ==
    /\ task[j] = "finally_close"
    /\ bot' = 0
    /\ history' = Archived(history, jobs, current_job)
    /\ task' = [task EXCEPT ![j] = "done"]
    /\ UNCHANGED <<jobs, current_job, cancel_requested, bots, force_close,
                   raised>>

(***************************************************************************)
(* DownloadManager (api/download_manager.py)                               *)
(***************************************************************************)
DownloadJob(status) ==
    [status |-> status, error |-> "", started_at |-> status # "none",
     finished_at |-> FALSE]

\* path: an attachments path is configured.
InitDownloadWith(path) ==
    /\ attachments_path = path
    /\ dl_job = DownloadJob("none")
    /\ dl_task = "none"
    /\ dl_must_cancel = FALSE
    /\ dl_raised = ""

DlIsBusyPendingOnly == dl_job.status = "pending"

\* DownloadManager.is_busy
DlIsBusy == dl_job.status \in {"pending", "running"}

\* DownloadManager.start_download
StartDownload ==
    /\ IF DlIsBusy
       THEN /\ dl_raised' = "AlreadyRunning"
            /\ UNCHANGED <<dl_job, dl_task, dl_must_cancel>>
       ELSE IF ~attachments_path
       THEN /\ dl_raised' = "NoAttachmentsPath"
            /\ UNCHANGED <<dl_job, dl_task, dl_must_cancel>>
       ELSE /\ dl_job' = DownloadJob("pending")
            /\ dl_task' = "created"
            /\ dl_must_cancel' = FALSE
            /\ dl_raised' = ""
    /\ UNCHANGED attachments_path

\* DownloadManager.cancel, when it returns True: self._task.cancel() unless
\* the task is done.
DownloadCancel ==
    /\ DlIsBusy
    /\ dl_must_cancel' = (dl_task # "done")
    /\ UNCHANGED <<attachments_path, dl_job, dl_task, dl_raised>>

\* _run_download's first segment.  A task cancelled before its first step
\* gets CancelledError thrown into the coroutine before its body (the try
\* block included) has started: the task ends and the job is not touched.
\* Otherwise: job.status = "running"; await downloader.download_all_images()
RunDownloadBegin ==
    /\ dl_task = "created"
    /\ IF dl_must_cancel
       THEN /\ dl_task' = "done"
            /\ dl_must_cancel' = FALSE
            /\ UNCHANGED dl_job
       ELSE /\ dl_job' = [dl_job EXCEPT !.status = "running"]
            /\ dl_task' = "downloading"
            /\ UNCHANGED dl_must_cancel
    /\ UNCHANGED <<attachments_path, dl_raised>>

\* download_all_images returned: job.status = "completed"
RunDownloadCompleted ==
    /\ dl_task = "downloading"
    /\ ~dl_must_cancel
    /\ dl_job' = [dl_job EXCEPT !.status = "completed", !.finished_at = TRUE]
    /\ dl_task' = "done"
    /\ UNCHANGED <<attachments_path, dl_must_cancel, dl_raised>>

\* except Exception as e
RunDownloadFailed ==
    /\ dl_task = "downloading"
    /\ ~dl_must_cancel
    /\ dl_job' = [dl_job EXCEPT !.status = "failed", !.error = "exception text",
                                !.finished_at = TRUE]
    /\ dl_task' = "done"
    /\ UNCHANGED <<attachments_path, dl_must_cancel, dl_raised>>

\* except asyncio.CancelledError: the cancellation is delivered at the await
RunDownloadCancelled ==
    /\ dl_task = "downloading"
    /\ dl_must_cancel
    /\ dl_job' = [dl_job EXCEPT !.status = "cancelled", !.finished_at = TRUE]
    /\ dl_task' = "done"
    /\ dl_must_cancel' = FALSE
    /\ UNCHANGED <<attachments_path, dl_raised>>

(***************************************************************************)
(* TransferManager (api/transfer_manager.py)                               *)
(***************************************************************************)
Tables == 1..NumTables

TransferJob(status) ==
    [status |-> status, current_table |-> 0, tables_done |-> 0,
     rows_transferred |-> 0, total_rows |-> 0, error |-> "",
     started_at |-> status # "none", finished_at |-> FALSE]

RECURSIVE SumRows(_, _)
SumRows(rows, n) == IF n = 0 THEN 0 ELSE rows[n] + SumRows(rows, n - 1)

\* rows: the content of the source store when the manager is built;
\* postgres: the target store is a PostgreSQL backend.
InitTransferWith(rows, postgres) ==
    /\ tr_job = TransferJob("none")
    /\ tr_task = "none"
    /\ cancel_event = FALSE
    /\ tr_table = 0
    /\ tr_offset = 0
    /\ tr_batch = 0
    /\ src_rows = rows
    /\ tgt_rows = [t \in Tables |-> 0]
    /\ tgt_postgres = postgres
    /\ tgt_sequence = 0
    /\ tr_raised = ""
    /\ tr_cancel_early = FALSE
    /\ tr_restart = FALSE
    /\ tr_failed_phase = ""

\* TransferManager.is_busy
TrIsBusy == tr_job.status \in {"pending", "running"}

\* the job is allocated before the names are looked up
StartTransferAllocatingFirst(registered) ==
    /\ IF TrIsBusy
       THEN /\ tr_raised' = "AlreadyRunning"
            /\ UNCHANGED <<tr_job, tr_task, cancel_event, tr_cancel_early,
                           tr_restart, tr_failed_phase>>
       ELSE /\ tr_job' = TransferJob("pending")
            /\ tr_task' = IF registered THEN "created" ELSE tr_task
            /\ cancel_event' = FALSE
            /\ tr_raised' = IF registered THEN "" ELSE "KeyError"
            /\ UNCHANGED <<tr_cancel_early, tr_restart, tr_failed_phase>>
    /\ UNCHANGED <<tr_table, tr_offset, tr_batch, src_rows, tgt_rows,
                   tgt_postgres, tgt_sequence>>

\* TransferManager.start_transfer(source, target); registered: both names
\* are keys of registry.sources.
StartTransfer(registered) ==
    /\ IF TrIsBusy
       THEN /\ tr_raised' = "AlreadyRunning"
            /\ UNCHANGED <<tr_job, tr_task, cancel_event, tr_cancel_early,
                           tr_restart, tr_failed_phase>>
       ELSE IF ~registered
       THEN /\ tr_raised' = "KeyError"
            /\ UNCHANGED <<tr_job, tr_task, cancel_event, tr_cancel_early,
                           tr_restart, tr_failed_phase>>
       ELSE /\ tr_job' = TransferJob("pending")
            /\ tr_task' = "created"
            /\ cancel_event' = FALSE
            /\ tr_cancel_early' = FALSE
            /\ tr_restart' =
                  (/\ tr_job.status \in {"failed", "cancelled"}
                   /\ \E t \in Tables : 0 < src_rows[t] /\ tgt_rows[t] = src_rows[t]
                   /\ \E t \in Tables : tgt_rows[t] < src_rows[t])
            /\ tr_failed_phase' = ""
            /\ tr_raised' = ""
    /\ UNCHANGED <<tr_table, tr_offset, tr_batch, src_rows, tgt_rows,
                   tgt_postgres, tgt_sequence>>

\* TransferManager.cancel, when it returns True
TransferCancel ==
    /\ TrIsBusy
    /\ cancel_event' = TRUE
    /\ tr_cancel_early' =
          (tr_cancel_early \/ tr_job.rows_transferred < SumRows(src_rows, NumTables))
    /\ UNCHANGED <<tr_job, tr_task, tr_table, tr_offset, tr_batch, src_rows,
                   tgt_rows, tgt_postgres, tgt_sequence, tr_raised, tr_restart,
                   tr_failed_phase>>

\* The top of _run_transfer's "for table_name, model in TABLES" at table t,
\* up to the next await.  job: the job as the code before left it.
\*   t past the last table: Phase 3, _reset_sequences (which returns at once
\*     unless the target is PostgreSQL), then job.status = "completed";
\*   cancel event set: job.status = "cancelled"; return;
\*   otherwise _transfer_table starts: offset = 0 and the first batch read.
EnterTable(t, job) ==
    IF t > NumTables
    THEN IF tgt_postgres
         THEN /\ tr_job' = job
              /\ tr_task' = "reset"
              /\ UNCHANGED <<tr_table, tr_offset>>
         ELSE /\ tr_job' = [job EXCEPT !.status = "completed", !.finished_at = TRUE]
              /\ tr_task' = "done"
              /\ UNCHANGED <<tr_table, tr_offset>>
    ELSE IF cancel_event
    THEN /\ tr_job' = [job EXCEPT !.status = "cancelled", !.finished_at = TRUE]
         /\ tr_task' = "done"
         /\ UNCHANGED <<tr_table, tr_offset>>
    ELSE /\ tr_job' = [job EXCEPT !.current_table = t]
         /\ tr_task' = "read"
         /\ tr_table' = t
         /\ tr_offset' = 0

\* the loop moves on by two tables
TableDoneSkippingNext(job) ==
    EnterTable(tr_table + 2, [job EXCEPT !.tables_done = @ + 1])

\* _transfer_table returned: job.tables_done += 1, then the next table
TableDone(job) ==
    EnterTable(tr_table + 1, [job EXCEPT !.tables_done = @ + 1])

\* try: job.status = "running"; Phase 1: the first count query
RunTransferBegin ==
    /\ tr_task = "created"
    /\ tr_job' = [tr_job EXCEPT !.status = "running"]
    /\ tr_task' = "count"
    /\ tr_table' = 1
    /\ UNCHANGED <<cancel_event, tr_offset, tr_batch, src_rows, tgt_rows,
                   tgt_postgres, tgt_sequence, tr_raised, tr_cancel_early, tr_restart,
                   tr_failed_phase>>

\* A count query returned: job.total_rows += result.scalar_one(); after the
\* last one Phase 2 starts.
RunTransferCounted ==
    /\ tr_task = "count"
    /\ LET job == [tr_job EXCEPT !.total_rows = @ + src_rows[tr_table]]
       IN  IF tr_table < NumTables
           THEN /\ tr_job' = job
                /\ tr_table' = tr_table + 1
                /\ UNCHANGED <<tr_task, tr_offset>>
           ELSE EnterTable(1, job)
    /\ UNCHANGED <<cancel_event, tr_batch, src_rows, tgt_rows, tgt_postgres,
                   tgt_sequence,
                   tr_raised, tr_cancel_early, tr_restart, tr_failed_phase>>

\* The write loop of _transfer_table on a batch of n rows read at offset,
\* against a target table that holds the first stored rows of the source
\* table: "existing = await tgt_session.get(type(row), row.id)" finds the
\* rows of the batch among them (updated += 1), the others are new
\* (inserted += 1).
Updated(stored, offset, n) == Max(0, Min(stored - offset, n))
Inserted(stored, offset, n) == n - Updated(stored, offset, n)

\* merge replaced by add: every row of the batch becomes a new row
MergeBatchAlwaysInserting(stored, offset, n) == stored + n

\* "await tgt_session.merge(row)" for every row of the batch: the rows of
\* the target table afterwards
MergeBatch(stored, offset, n) == stored + Inserted(stored, offset, n)

\* _transfer_table: select(model).offset(offset).limit(BATCH_SIZE) returned.
\* "if not rows: break"; otherwise the batch is written to the target.
RunTransferBatchRead ==
    /\ tr_task = "read"
    /\ LET rows == Min(BATCH_SIZE, Max(0, src_rows[tr_table] - tr_offset))
       IN  IF rows = 0
           THEN /\ TableDone(tr_job)
                /\ UNCHANGED tr_batch
           ELSE /\ tr_task' = "write"
                /\ tr_batch' = rows
                /\ UNCHANGED <<tr_job, tr_table, tr_offset>>
    /\ UNCHANGED <<cancel_event, src_rows, tgt_rows, tgt_postgres, tgt_sequence, tr_raised,
                   tr_cancel_early, tr_restart, tr_failed_phase>>

\* _transfer_table: the target session committed the merged batch:
\* job.rows_transferred += len(rows); offset += len(rows); then the top of
\* "while True": "if self._cancel_event.is_set(): return".
RunTransferBatchWritten ==
    /\ tr_task = "write"
    /\ tgt_rows' = [tgt_rows EXCEPT ![tr_table] = MergeBatch(@, tr_offset, tr_batch)]
    /\ tr_batch' = 0
    /\ LET job == [tr_job EXCEPT !.rows_transferred = @ + tr_batch]
       IN  IF cancel_event
           THEN TableDone(job)
           ELSE /\ tr_job' = job
                /\ tr_task' = "read"
                /\ tr_offset' = tr_offset + tr_batch
                /\ UNCHANGED tr_table
    /\ UNCHANGED <<cancel_event, src_rows, tgt_postgres, tgt_sequence, tr_raised,
                   tr_cancel_early, tr_restart, tr_failed_phase>>

\* The reactions of the source carry the ids 1, 2, ... in storage order
\* (Reaction.id is an auto-increment key), so the largest id among the
\* first n of them is n.  MAX(id) of an empty table is NULL, written 0.
MaxReactionId(rows) == rows[NumTables]

\* SELECT setval('reactions_id_seq', COALESCE((SELECT MAX(id) FROM
\* reactions), 1)): the value the sequence holds afterwards; the next
\* nextval is one more.
SetVal(max_id) == IF max_id = 0 THEN 1 ELSE max_id

\* Phase 3 on PostgreSQL: _reset_sequences returned; job.status = "completed".
\* failed: the setval statement raised; "except Exception as e:
\* logger.warning(...)" inside _reset_sequences swallows it and the call
\* returns normally all the same.
RunTransferSequencesReset(failed) ==
    /\ tr_task = "reset"
    /\ tr_job' = [tr_job EXCEPT !.status = "completed", !.finished_at = TRUE]
    /\ tr_task' = "done"
    /\ tr_failed_phase' = IF failed THEN "reset" ELSE tr_failed_phase
    /\ tgt_sequence' =
          IF failed THEN tgt_sequence ELSE SetVal(MaxReactionId(tgt_rows))
    /\ UNCHANGED <<cancel_event, tr_table, tr_offset, tr_batch, src_rows,
                   tgt_rows, tgt_postgres, tr_raised, tr_cancel_early,
                   tr_restart>>

\* The phase of _run_transfer a task position belongs to
PhaseOf(position) ==
    IF position = "count" THEN "count"
    ELSE IF position \in {"read", "write"} THEN "copy"
    ELSE "reset"

\* except Exception as e: a store call raised out of a phase: a count query,
\* a batch read, a batch write (whose session rolls the batch back), or the
\* commit that ends the session of _reset_sequences.
RunTransferFailed ==
    /\ tr_task \in {"count", "read", "write", "reset"}
    /\ tr_job' = [tr_job EXCEPT !.status = "failed", !.error = "exception text",
                                !.finished_at = TRUE]
    /\ tr_task' = "done"
    /\ tr_batch' = 0
    /\ tr_failed_phase' = PhaseOf(tr_task)
    /\ UNCHANGED <<cancel_event, tr_table, tr_offset, src_rows, tgt_rows,
                   tgt_postgres, tgt_sequence, tr_raised, tr_cancel_early, tr_restart>>

(***************************************************************************)
(* ArchiverBot._scrape_channel (bot/scraper.py) on one channel, with the   *)
(* ChannelRepository calls it makes (storage/repositories.py).             *)
(***************************************************************************)
MessageIds == 1..MaxMessageId

\* Channel(...) as _scrape_channel builds it: no cursor, message_count 0.
\* 0 stands for None in the id columns and in last_scraped_at.
NewChannel ==
    [exists |-> FALSE, first_message_id |-> 0, last_message_id |-> 0,
     message_count |-> 0, last_scraped_at |-> 0]

\* The three tables a channel scrape writes, as lists of rows.
EmptyTables == [messages |-> <<>>, attachments |-> <<>>, reactions |-> <<>>]

StoredTables ==
    [messages |-> messages, attachments |-> attachments,
     reactions |-> reactions]

InitChannel ==
    /\ remote = {}
    /\ remote_rich = {}
    /\ next_id = 1
    /\ channel = NewChannel
    /\ messages = <<>>
    /\ attachments = <<>>
    /\ reactions = <<>>
    /\ clock = 0
    /\ ch_result = [raised |-> "", messages |-> 0, attachments |-> 0,
                    fetched |-> <<>>, cursor |-> 0, remote |-> {}]

\* The platform: snowflakes grow with time; any message may be deleted.
\* rich: the message carries one attachment and one reaction.
RemotePost(rich) ==
    /\ next_id <= MaxMessageId
    /\ remote' = remote \cup {next_id}
    /\ remote_rich' = IF rich THEN remote_rich \cup {next_id} ELSE remote_rich
    /\ next_id' = next_id + 1
    /\ UNCHANGED <<channel, messages, attachments, reactions, clock, ch_result>>

RemoteDelete(m) ==
    /\ m \in remote
    /\ remote' = remote \ {m}
    /\ UNCHANGED <<remote_rich, next_id, channel, messages, attachments,
                   reactions, clock, ch_result>>

SetMin(S) == CHOOSE m \in S : \A n \in S : m <= n
SetMax(S) == CHOOSE m \in S : \A n \in S : m >= n

RECURSIVE Ascending(_)
Ascending(S) ==
    IF S = {} THEN <<>> ELSE <<SetMin(S)>> \o Ascending(S \ {SetMin(S)})

RECURSIVE Descending(_)
Descending(S) ==
    IF S = {} THEN <<>> ELSE <<SetMax(S)>> \o Descending(S \ {SetMax(S)})

\* channel.history(**history_kwargs): with a stored cursor, the messages
\* after it, oldest first; without, the whole history, newest first.
ChannelHistoryIgnoringCursor(existing_last_id) == Descending(remote)

ChannelHistory(existing_last_id) ==
    IF existing_last_id # 0
    THEN Ascending({m \in remote : m > existing_last_id})
    ELSE Descending(remote)

\* ChannelRepository.update_message_metadata
UpdateMessageMetadataAssigningCount(row, last_message_id, increment, now) ==
    [row EXCEPT !.last_message_id = last_message_id,
                !.message_count = increment,
                !.last_scraped_at = now]

UpdateMessageMetadata(row, last_message_id, increment, now) ==
    [row EXCEPT !.last_message_id = last_message_id,
                !.message_count = @ + increment,
                !.last_scraped_at = now]

\* MessageRepository.upsert: the editable fields of an existing row are
\* overwritten (a message row is kept as its id), a new row is added.
MessageUpsertAlwaysAdding(rows, m) == Append(rows, m)

MessageUpsert(rows, m) ==
    IF \E i \in 1..Len(rows) : rows[i] = m THEN rows ELSE Append(rows, m)

\* Attachment(...) as _save_attachment builds it: download_status "pending",
\* local_path and content_hash not given (None, written 0).  The remote
\* attachments with an even id have a proxy_url, the others have none.
ScrapedAttachment(a, message_id) ==
    [id |-> a, message_id |-> message_id, proxy_url |-> a % 2 = 0,
     download_status |-> "pending", local_path |-> 0, content_hash |-> 0]

\* AttachmentRepository.upsert: an existing row takes local_path,
\* download_status and content_hash from the attachment passed in.
AttachmentUpsertKeepingExisting(rows, attachment) ==
    IF \E i \in 1..Len(rows) : rows[i].id = attachment.id
    THEN rows
    ELSE Append(rows, attachment)

AttachmentUpsert(rows, attachment) ==
    IF \E i \in 1..Len(rows) : rows[i].id = attachment.id
    THEN [i \in 1..Len(rows) |->
            IF rows[i].id = attachment.id
            THEN [rows[i] EXCEPT !.local_path = attachment.local_path,
                                 !.download_status = attachment.download_status,
                                 !.content_hash = attachment.content_hash]
            ELSE rows[i]]
    ELSE Append(rows, attachment)

\* Reaction(...) as _save_reaction builds it; emoji_id 0 is None (a unicode
\* emoji).
ScrapedReaction(message_id) ==
    [message_id |-> message_id, emoji_name |-> "thumbsup", emoji_id |-> 0,
     count |-> 1]

\* the count of an existing row grows by the new count
ReactionUpsertAddingCount(rows, reaction) ==
    IF \E i \in 1..Len(rows) :
          /\ rows[i].message_id = reaction.message_id
          /\ rows[i].emoji_name = reaction.emoji_name
          /\ rows[i].emoji_id = reaction.emoji_id
    THEN [i \in 1..Len(rows) |->
            IF /\ rows[i].message_id = reaction.message_id
               /\ rows[i].emoji_name = reaction.emoji_name
               /\ rows[i].emoji_id = reaction.emoji_id
            THEN [rows[i] EXCEPT !.count = @ + reaction.count]
            ELSE rows[i]]
    ELSE Append(rows, reaction)

\* ReactionRepository.upsert: looked up by message id, emoji name and emoji
\* id; an existing row takes the new count.
ReactionUpsert(rows, reaction) ==
    IF \E i \in 1..Len(rows) :
          /\ rows[i].message_id = reaction.message_id
          /\ rows[i].emoji_name = reaction.emoji_name
          /\ rows[i].emoji_id = reaction.emoji_id
    THEN [i \in 1..Len(rows) |->
            IF /\ rows[i].message_id = reaction.message_id
               /\ rows[i].emoji_name = reaction.emoji_name
               /\ rows[i].emoji_id = reaction.emoji_id
            THEN [rows[i] EXCEPT !.count = reaction.count]
            ELSE rows[i]]
    ELSE Append(rows, reaction)

\* _save_message: the message, then its attachments, then its reactions.
\* The attachment of message m has id m.
SaveMessage(tables, m) ==
    [messages |-> MessageUpsert(tables.messages, m),
     attachments |->
        IF m \in remote_rich
        THEN AttachmentUpsert(tables.attachments, ScrapedAttachment(m, m))
        ELSE tables.attachments,
     reactions |->
        IF m \in remote_rich
        THEN ReactionUpsert(tables.reactions, ScrapedReaction(m))
        ELSE tables.reactions]

\* The body of "async for message in channel.history(...)" for one message.
\* st: stats["messages"], stats["attachments"], first_message_id,
\* last_message_id, the tables as the session sees them (pending) and as
\* they are committed (durable).  failed: _save_message raised for this
\* message (the except branch rolls the session back).
SaveOne(st, m, failed) ==
    IF failed
    THEN [st EXCEPT !.pending = st.durable]
    ELSE LET n == st.messages + 1
             first == IF st.first = 0 \/ m < st.first THEN m ELSE st.first
             last == IF st.last = 0 \/ m > st.last THEN m ELSE st.last
             saved == SaveMessage(st.pending, m)
         IN  [messages |-> n,
              attachments |->
                 st.attachments + (IF m \in remote_rich THEN 1 ELSE 0),
              first |-> first, last |-> last,
              pending |-> saved,
              durable |-> IF n % batch_size = 0 THEN saved ELSE st.durable]

RECURSIVE SaveAll(_, _, _, _)
SaveAll(st, seq, i, fail) ==
    IF i > Len(seq) THEN st
    ELSE SaveAll(SaveOne(st, seq[i], seq[i] \in fail), seq, i + 1, fail)

\* _scrape_channel.  fail: the messages whose _save_message raises; cut: how
\* many messages the remote delivers; fewer than the history holds when the
\* API call fails part-way, and the exception leaves _scrape_channel.
\* A scrape that saved nothing calls channel_repo.mark_scraped, which
\* ChannelRepository does not define: the AttributeError leaves
\* _scrape_channel as well.  Whatever the session still holds is committed
\* by the caller's next commit.
ScrapeChannel(fail, cut) ==
    /\ clock < MaxScrapes
    /\ LET row == [channel EXCEPT !.exists = TRUE]
           history_ == ChannelHistory(row.last_message_id)
           delivered == SubSeq(history_, 1, cut)
           st == SaveAll([messages |-> 0, attachments |-> 0,
                          first |-> 0, last |-> 0,
                          pending |-> StoredTables, durable |-> StoredTables],
                         delivered, 1, fail)
           call == [fetched |-> delivered, cursor |-> row.last_message_id,
                    remote |-> remote]
       IN  /\ cut \in 0..Len(history_)
           /\ fail \subseteq {delivered[i] : i \in 1..cut}
           /\ clock' = clock + 1
           /\ messages' = st.pending.messages
           /\ attachments' = st.pending.attachments
           /\ reactions' = st.pending.reactions
           /\ IF cut < Len(history_)
              THEN /\ channel' = row
                   /\ ch_result' = call @@ [raised |-> "HTTPException",
                                            messages |-> 0, attachments |-> 0]
              ELSE IF st.messages > 0
              THEN /\ channel' =
                        UpdateMessageMetadata(
                           IF channel.exists THEN row
                           ELSE [row EXCEPT !.first_message_id = st.first],
                           st.last, st.messages, clock')
                   /\ ch_result' = call @@ [raised |-> "",
                                            messages |-> st.messages,
                                            attachments |-> st.attachments]
              ELSE /\ channel' = row
                   /\ ch_result' = call @@ [raised |-> "AttributeError",
                                            messages |-> 0, attachments |-> 0]
    /\ UNCHANGED <<remote, remote_rich, next_id>>

(***************************************************************************)
(* ImageDownloader (utils/downloader.py) on the attachments of the         *)
(* channel: one run of _download_channel_images, its batch of concurrent   *)
(* _download_attachment tasks and the update of the store.                 *)
(***************************************************************************)
\* DownloadStats()
NewStats ==
    [total |-> 0, downloaded |-> 0, skipped |-> 0, failed |-> 0,
     already_exists |-> 0]

\* ImageDownloader.__init__ with max_retries = retries, concurrency = width;
\* no file is on disk.
InitFetchWith(retries, width) ==
    /\ files = {}
    /\ max_retries = retries
    /\ concurrency = width
    /\ dr_pc = "idle"
    /\ batch = <<>>
    /\ workers = <<>>
    /\ permits = width
    /\ stats = NewStats
    /\ runs = 0

\* .order_by(Attachment.id)
RECURSIVE OrderedById(_, _)
OrderedById(rows, left) ==
    IF left = {} THEN <<>>
    ELSE LET i == CHOOSE i \in left : \A k \in left : rows[i].id <= rows[k].id
         IN  <<rows[i]>> \o OrderedById(rows, left \ {i})

\* A task of the batch before it has entered "async with self._semaphore".
Queued ==
    [pc |-> "queued", attempt |-> 0, url |-> 1, fetches |-> 0,
     result |-> "none", outcome |-> "none"]

\* download_all_images with _download_channel_images up to the first batch
\* query: a new downloader (its own semaphore and stats), the query for the
\* channels and the count of the channel's image attachments ("if total ==
\* 0: return"; self.stats.total += total).
DownloadRunBegin ==
    /\ dr_pc = "idle"
    /\ runs < MaxRuns
    /\ runs' = runs + 1
    /\ permits' = concurrency
    /\ batch' = <<>>
    /\ workers' = <<>>
    /\ IF ~channel.exists \/ Len(attachments) = 0
       THEN /\ stats' = NewStats
            /\ dr_pc' = "idle"
       ELSE /\ stats' = [NewStats EXCEPT !.total = Len(attachments)]
            /\ dr_pc' = "read"
    /\ UNCHANGED <<files, max_retries, concurrency, attachments>>

\* "while offset < total" at offset 0: the batch query returned the first
\* batch_size image attachments of the channel, in the order of their ids,
\* as the store holds them now; one _download_attachment task is made for
\* each and gather is awaited.
DownloadRunRead ==
    /\ dr_pc = "read"
    /\ batch' = SubSeq(OrderedById(attachments, 1..Len(attachments)),
                       1, Min(fetch_batch_size, Len(attachments)))
    /\ workers' = [w \in 1..Len(batch') |-> Queued]
    /\ dr_pc' = "gather"
    /\ UNCHANGED <<files, max_retries, concurrency, permits, stats, runs,
                   attachments>>

WorkerEntersAlwaysFetching(w) ==
    /\ dr_pc = "gather"
    /\ workers[w].pc = "queued"
    /\ permits > 0
    /\ permits' = permits - 1
    /\ workers' = [workers EXCEPT ![w].pc = "fetching"]
    /\ UNCHANGED <<files, max_retries, concurrency, dr_pc, batch, runs,
                   attachments, stats>>

WorkerEntersWithoutPermit(w) ==
    /\ dr_pc = "gather"
    /\ workers[w].pc = "queued"
    /\ permits' = permits - 1
    /\ workers' = [workers EXCEPT ![w].pc = "fetching"]
    /\ UNCHANGED <<files, max_retries, concurrency, dr_pc, batch, runs,
                   attachments, stats>>

\* _download_attachment from "async with self._semaphore" to the first
\* request: an attachment marked downloaded whose file exists is counted as
\* already existing and left alone.
WorkerEnters(w) ==
    /\ dr_pc = "gather"
    /\ workers[w].pc = "queued"
    /\ permits > 0
    /\ IF /\ batch[w].download_status = "downloaded"
          /\ batch[w].local_path # 0
          /\ batch[w].local_path \in files
       THEN /\ stats' = [stats EXCEPT !.already_exists = @ + 1]
            /\ workers' = [workers EXCEPT ![w].pc = "done",
                                          ![w].result = "None",
                                          ![w].outcome = "exists"]
            /\ UNCHANGED permits
       ELSE /\ permits' = permits - 1
            /\ workers' = [workers EXCEPT ![w].pc = "fetching"]
            /\ UNCHANGED stats
    /\ UNCHANGED <<files, max_retries, concurrency, dr_pc, batch, runs,
                   attachments>>

Responses == {"200", "404", "500", "ClientError", "OSError"}

\* One http_session.get(url) of the retry loop and what follows it up to the
\* next request or the return.  "OSError": the response was 200 and writing
\* the file raised (an exception the loop does not catch).
FetchResponds(w, response) ==
    /\ dr_pc = "gather"
    /\ workers[w].pc = "fetching"
    /\ response \in Responses
    /\ LET me == [workers[w] EXCEPT !.fetches = @ + 1]
           ended(result, outcome) ==
              [me EXCEPT !.pc = "done", !.result = result,
                         !.outcome = outcome]
       IN  CASE response = "200" ->
                  /\ files' = files \cup {batch[w].id}
                  /\ workers' = [workers EXCEPT
                                    ![w] = ended("tuple", "downloaded")]
                  /\ permits' = permits + 1
                  /\ UNCHANGED stats
             [] response = "OSError" ->
                  /\ workers' = [workers EXCEPT
                                    ![w] = ended("exception", "exception")]
                  /\ permits' = permits + 1
                  /\ UNCHANGED <<files, stats>>
             [] response = "404" ->
                  /\ stats' = [stats EXCEPT !.skipped = @ + 1]
                  /\ workers' = [workers EXCEPT
                                    ![w] = ended("None", "not_found")]
                  /\ permits' = permits + 1
                  /\ UNCHANGED files
             [] OTHER ->
                  IF me.url = 1 /\ batch[w].proxy_url
                  THEN /\ workers' = [workers EXCEPT ![w] = [me EXCEPT !.url = 2]]
                       /\ UNCHANGED <<files, stats, permits>>
                  ELSE IF me.attempt < max_retries - 1
                  THEN /\ workers' = [workers EXCEPT
                                         ![w] = [me EXCEPT !.attempt = @ + 1,
                                                           !.url = 1]]
                       /\ UNCHANGED <<files, stats, permits>>
                  ELSE /\ stats' = [stats EXCEPT !.failed = @ + 1]
                       /\ workers' = [workers EXCEPT
                                         ![w] = ended("None", "exhausted")]
                       /\ permits' = permits + 1
                       /\ UNCHANGED files
    /\ UNCHANGED <<max_retries, concurrency, dr_pc, batch, runs, attachments>>

\* _update_attachment_status: UPDATE attachments SET ... WHERE id = ...
UpdateAttachmentStatus(rows, attachment_id, status, local_path, content_hash) ==
    [i \in 1..Len(rows) |->
        IF rows[i].id = attachment_id
        THEN [rows[i] EXCEPT !.download_status = status,
                             !.local_path = local_path,
                             !.content_hash = content_hash]
        ELSE rows[i]]

\* "for att, download_result in zip(attachments, results)": an exception
\* marks the row failed, a tuple marks it downloaded with the relative path
\* (written as the attachment's id) and the hash of the data (written 1),
\* None changes nothing.
RECURSIVE ApplyBatch(_, _)
ApplyBatch(rows, w) ==
    IF w > Len(batch) THEN rows
    ELSE ApplyBatch(
            CASE workers[w].result = "exception" ->
                    UpdateAttachmentStatus(rows, batch[w].id, "failed", 0, 0)
              [] workers[w].result = "tuple" ->
                    UpdateAttachmentStatus(rows, batch[w].id, "downloaded",
                                           batch[w].id, 1)
              [] OTHER -> rows,
            w + 1)

ResultsOfKind(kind) == {w \in 1..Len(workers) : workers[w].result = kind}

\* gather has returned: the results are applied in one session and
\* committed; offset += batch_size ends the loop and the run, and the batch
\* and its tasks are dropped.
ApplyResults ==
    /\ dr_pc = "gather"
    /\ \A w \in 1..Len(workers) : workers[w].pc = "done"
    /\ attachments' = ApplyBatch(attachments, 1)
    /\ stats' = [stats EXCEPT
                    !.failed = @ + Cardinality(ResultsOfKind("exception")),
                    !.downloaded = @ + Cardinality(ResultsOfKind("tuple"))]
    /\ dr_pc' = "idle"
    /\ batch' = <<>>
    /\ workers' = <<>>
    /\ UNCHANGED <<files, max_retries, concurrency, permits, runs>>

\* A file of the output directory is deleted from outside.
FileDeleted(f) ==
    /\ f \in files
    /\ files' = files \ {f}
    /\ UNCHANGED <<max_retries, concurrency, dr_pc, batch, workers, permits,
                   stats, runs, attachments>>

(***************************************************************************)
(* Specifications                                                          *)
(***************************************************************************)
ScrapeOnly ==
    UNCHANGED <<downloadVars, transferVars, channelVars, fetchVars, guildVars>>
DownloadOnly ==
    UNCHANGED <<scrapeVars, transferVars, channelVars, fetchVars, guildVars>>
TransferOnly ==
    UNCHANGED <<scrapeVars, downloadVars, channelVars, fetchVars, guildVars>>
ChannelOnly ==
    UNCHANGED <<scrapeVars, downloadVars, transferVars, fetchVars, guildVars>>
FetchOnly ==
    UNCHANGED <<scrapeVars, downloadVars, transferVars, remote, remote_rich,
                next_id, channel, messages, reactions, clock, ch_result,
                guildVars>>
\* the engine's callbacks write job.progress
GuildOnly ==
    UNCHANGED <<current_job, cancel_requested, bot, history, task, bots,
                force_close, raised, downloadVars, transferVars, channelVars,
                fetchVars>>

\* The source store of the specifications that are not about its content:
\* three tables of more than one batch, among them the last one.
SomeRows == [t \in Tables |-> IF t \in {1, 4, 6} THEN BATCH_SIZE + 1 ELSE 1]

Init ==
    /\ InitScrape
    /\ InitDownloadWith(TRUE)
    /\ InitTransferWith(SomeRows, TRUE)
    /\ InitChannel
    /\ InitGuild
    /\ InitFetchWith(DEFAULT_MAX_RETRIES, DEFAULT_CONCURRENCY)

\* The scrape manager alone.
Next ==
    \/ StartScrape /\ ScrapeOnly
    \/ Cancel /\ ScrapeOnly
    \/ (\E j \in JobIds : RunScrapeBegin(j)) /\ ScrapeOnly
    \/ (\E j \in JobIds : RunScrapeConnected(j)) /\ ScrapeOnly
    \/ (\E j \in JobIds : RunScrapeEarlyReturn(j)) /\ ScrapeOnly
    \/ (\E j \in JobIds : RunScrapeCompleted(j)) /\ ScrapeOnly
    \/ (\E j \in JobIds : RunScrapeFailed(j)) /\ ScrapeOnly
    \/ (\E j \in JobIds : RunScrapeFinallyClosed(j)) /\ ScrapeOnly
    \/ (\E b \in 1..Len(bots) : BotOnReady(b)) /\ ScrapeOnly
    \/ (\E b \in 1..Len(bots) : BotStartFails(b)) /\ ScrapeOnly
    \/ (\E k \in 1..Len(force_close) : ForceCloseBegin(k)) /\ ScrapeOnly
    \/ (\E k \in 1..Len(force_close) : ForceCloseEnd(k)) /\ ScrapeOnly

Spec == Init /\ [][Next]_vars

\* The transfer manager alone, over source stores whose tables are empty or
\* hold more than one batch, and both kinds of target backend.
RowChoices == {0, BATCH_SIZE + 1}

InitTransfer ==
    /\ InitScrape
    /\ InitDownloadWith(TRUE)
    /\ \E rows \in [Tables -> RowChoices], postgres \in BOOLEAN :
          InitTransferWith(rows, postgres)
    /\ InitChannel
    /\ InitGuild
    /\ InitFetchWith(DEFAULT_MAX_RETRIES, DEFAULT_CONCURRENCY)

NextTransfer ==
    \/ (\E registered \in BOOLEAN : StartTransfer(registered)) /\ TransferOnly
    \/ TransferCancel /\ TransferOnly
    \/ RunTransferBegin /\ TransferOnly
    \/ RunTransferCounted /\ TransferOnly
    \/ RunTransferBatchRead /\ TransferOnly
    \/ RunTransferBatchWritten /\ TransferOnly
    \/ (\E failed \in BOOLEAN : RunTransferSequencesReset(failed)) /\ TransferOnly
    \/ RunTransferFailed /\ TransferOnly

SpecTransfer == InitTransfer /\ [][NextTransfer]_vars

\* The three managers.  They are separate objects and share no field (every
\* action above leaves the other two managers' variables alone), so each is
\* explored with the other two idle.
DownloadIdle == dl_task = "none" /\ dl_raised = ""
TransferIdle == tr_task = "none" /\ tr_raised = ""
ScrapeIdle == jobs = <<>>

ScrapeTurn == DownloadIdle /\ TransferIdle /\ ScrapeOnly
DownloadTurn == ScrapeIdle /\ TransferIdle /\ DownloadOnly
TransferTurn == ScrapeIdle /\ DownloadIdle /\ TransferOnly

InitManagers ==
    /\ InitScrape
    /\ \E path \in BOOLEAN : InitDownloadWith(path)
    /\ InitTransferWith(SomeRows, TRUE)
    /\ InitChannel
    /\ InitGuild
    /\ InitFetchWith(DEFAULT_MAX_RETRIES, DEFAULT_CONCURRENCY)

NextManagers ==
    \/ StartScrapeUpTo(MaxManagerJobs) /\ ScrapeTurn
    \/ Cancel /\ ScrapeTurn
    \/ (\E j \in JobIds : RunScrapeBegin(j)) /\ ScrapeTurn
    \/ (\E j \in JobIds : RunScrapeConnected(j)) /\ ScrapeTurn
    \/ (\E j \in JobIds : RunScrapeEarlyReturn(j)) /\ ScrapeTurn
    \/ (\E j \in JobIds : RunScrapeCompleted(j)) /\ ScrapeTurn
    \/ (\E j \in JobIds : RunScrapeFailed(j)) /\ ScrapeTurn
    \/ (\E j \in JobIds : RunScrapeFinallyClosed(j)) /\ ScrapeTurn
    \/ (\E b \in 1..Len(bots) : BotOnReady(b)) /\ ScrapeTurn
    \/ (\E b \in 1..Len(bots) : BotStartFails(b)) /\ ScrapeTurn
    \/ (\E k \in 1..Len(force_close) : ForceCloseBegin(k)) /\ ScrapeTurn
    \/ (\E k \in 1..Len(force_close) : ForceCloseEnd(k)) /\ ScrapeTurn
    \/ StartDownload /\ DownloadTurn
    \/ DownloadCancel /\ DownloadTurn
    \/ RunDownloadBegin /\ DownloadTurn
    \/ RunDownloadCompleted /\ DownloadTurn
    \/ RunDownloadFailed /\ DownloadTurn
    \/ RunDownloadCancelled /\ DownloadTurn
    \/ (\E registered \in BOOLEAN : StartTransfer(registered)) /\ TransferTurn
    \/ TransferCancel /\ TransferTurn
    \/ RunTransferBegin /\ TransferTurn
    \/ RunTransferCounted /\ TransferTurn
    \/ RunTransferBatchRead /\ TransferTurn
    \/ RunTransferBatchWritten /\ TransferTurn
    \/ (\E failed \in BOOLEAN : RunTransferSequencesReset(failed)) /\ TransferTurn
    \/ RunTransferFailed /\ TransferTurn

SpecManagers == InitManagers /\ [][NextManagers]_vars

\* The scrape manager with fair scheduling: the event loop runs every task
\* that is ready to resume, and the gateway task spawned by ArchiverBot.start
\* ends one way or the other.  Calls of start_scrape and cancel come from
\* the outside and are under no obligation.
ScrapeTasks ==
    \/ (\E j \in JobIds : RunScrapeBegin(j)) /\ ScrapeOnly
    \/ (\E j \in JobIds : RunScrapeConnected(j)) /\ ScrapeOnly
    \/ (\E j \in JobIds : RunScrapeEarlyReturn(j)) /\ ScrapeOnly
    \/ (\E j \in JobIds : RunScrapeCompleted(j)) /\ ScrapeOnly
    \/ (\E j \in JobIds : RunScrapeFailed(j)) /\ ScrapeOnly
    \/ (\E j \in JobIds : RunScrapeFinallyClosed(j)) /\ ScrapeOnly
    \/ (\E b \in 1..Len(bots) : BotOnReady(b)) /\ ScrapeOnly
    \/ (\E b \in 1..Len(bots) : BotStartFails(b)) /\ ScrapeOnly
    \/ (\E k \in 1..Len(force_close) : ForceCloseBegin(k)) /\ ScrapeOnly
    \/ (\E k \in 1..Len(force_close) : ForceCloseEnd(k)) /\ ScrapeOnly

FairSpec == Init /\ [][Next]_vars /\ WF_vars(ScrapeTasks)

\* Scrape jobs run to completion one after the other, enough of them to
\* overflow the history: the caller starts a job when the task of the job
\* before has ended.
AllTasksEnded == \A j \in JobIds : task[j] = "done"

NextHistory ==
    \/ AllTasksEnded /\ StartScrapeUpTo(MaxHistoryJobs) /\ ScrapeOnly
    \/ (\E j \in JobIds : RunScrapeBegin(j)) /\ ScrapeOnly
    \/ (\E b \in 1..Len(bots) : BotOnReady(b)) /\ ScrapeOnly
    \/ (\E j \in JobIds : RunScrapeConnected(j)) /\ ScrapeOnly
    \/ (\E j \in JobIds : RunScrapeCompleted(j)) /\ ScrapeOnly
    \/ (\E j \in JobIds : RunScrapeFinallyClosed(j)) /\ ScrapeOnly

SpecHistory == Init /\ [][NextHistory]_vars

(***************************************************************************)
(* Properties                                                              *)
(***************************************************************************)
NonTerminal == {PENDING, CONNECTING, SCRAPING}
Terminal == {COMPLETED, FAILED, CANCELLED}

\* C1: start on a manager whose current job is non-terminal (scrape:
\* pending / connecting / scraping; download, transfer: pending / running)
\* raises the already-running error, allocates no job, launches no task and
\* leaves the current job as it is.
C1_StartWhileActiveIsRefused ==
    [][ /\ (current_job # 0 /\ jobs[current_job].status \in NonTerminal /\ StartScrape)
            => /\ raised' = "AlreadyRunning"
               /\ jobs' = jobs /\ current_job' = current_job /\ task' = task
        /\ (dl_job.status \in {"pending", "running"} /\ StartDownload)
            => /\ dl_raised' = "AlreadyRunning"
               /\ dl_job' = dl_job /\ dl_task' = dl_task
        /\ (tr_job.status \in {"pending", "running"}
              /\ \E registered \in BOOLEAN : StartTransfer(registered))
            => /\ tr_raised' = "AlreadyRunning"
               /\ tr_job' = tr_job /\ tr_task' = tr_task
      ]_vars

\* A start_scrape call was refused while the job was scraping.
C1_Witness ==
    /\ raised = "AlreadyRunning"
    /\ Len(jobs) = 1
    /\ jobs[1].status = SCRAPING
    /\ task[1] = "scraping"

\* The _run_scrape tasks that have started to run and have not ended.
ExecutingTasks == {j \in JobIds : task[j] \notin {"created", "done"}}

\* C2: at most one scrape engine task is executing and at most one bot
\* session is open at any time.
C2_OneEngineOneSession ==
    /\ Cardinality(ExecutingTasks) <= 1
    /\ Cardinality(OpenBots) <= 1

Rank(status) ==
    CASE status = PENDING -> 0
      [] status = CONNECTING -> 1
      [] status = SCRAPING -> 2
      [] OTHER -> 3

\* C3: a scrape job's status only moves forward along pending -> connecting
\* -> scraping -> {completed, failed, cancelled}, and a terminal status
\* never changes again.
C3_StatusOnlyMovesForward ==
    [][ \A j \in JobIds :
           \/ jobs'[j].status = jobs[j].status
           \/ /\ jobs[j].status \in NonTerminal
              /\ Rank(jobs'[j].status) > Rank(jobs[j].status)
      ]_vars

\* C5: every history entry is a snapshot of a job in a terminal status, and
\* each job whose engine task ended is in the history exactly once.
C5_HistoryHoldsEachEndedJobOnce ==
    /\ \A i \in 1..Len(history) : history[i].status \in Terminal
    /\ \A j \in JobIds :
          task[j] = "done" =>
             Cardinality({i \in 1..Len(history) : history[i].id = j}) = 1

\* C7: when the engine of a job raises an exception other than task
\* cancellation, the job ends failed with the exception text and the
\* completion timestamp, and the manager is no longer busy.
C7_EngineExceptionEndsFailedAndFrees ==
    [][ /\ \A j \in JobIds :
              RunScrapeFailed(j) =>
                 /\ jobs'[j].status = FAILED
                 /\ jobs'[j].error_message # ""
                 /\ jobs'[j].completed_at
                 /\ ~IsBusy'
        /\ RunDownloadFailed =>
              /\ dl_job'.status = "failed"
              /\ dl_job'.error # ""
              /\ dl_job'.finished_at
              /\ ~DlIsBusy'
        /\ RunTransferFailed =>
              /\ tr_job'.status = "failed"
              /\ tr_job'.error # ""
              /\ tr_job'.finished_at
              /\ ~TrIsBusy'
      ]_vars

\* C9: when a scrape engine task ends, the bot session its job opened has
\* been closed and the manager holds no bot reference.
C9_EndedTaskLeftNoSession ==
    [][ \A j \in JobIds :
           (task[j] # "done" /\ task'[j] = "done") =>
              /\ bots'[j].state = "closed"
              /\ bot' = 0
      ]_vars

\* C8: if the bot's gateway task dies before the session is ready, the job
\* becomes failed and the manager stops being busy.
C8_DeadSessionLeadsToFailed ==
    \A j \in 1..MaxJobs :
       (j \in JobIds /\ bots[j].state = "dead")
          ~> (j \in JobIds /\ jobs[j].status = FAILED /\ ~IsBusy)

MostRecentFirst(h) ==
    \A i \in 1..Len(h) : \A k \in 1..Len(h) : i < k => h[i].id >= h[k].id

\* C6: history returns at most 50 jobs, most recent first (every task that
\* ends puts its snapshot at the head and shifts the others by one), and
\* archiving into a full history evicts exactly its oldest entry.
C6_HistoryCappedNewestFirst ==
    [][ /\ Len(History') <= HistoryCap
        /\ MostRecentFirst(History')
        /\ \A j \in JobIds :
              (task[j] # "done" /\ task'[j] = "done") =>
                 /\ History'[1] = jobs'[current_job]
                 /\ \A i \in 2..Len(History') : History'[i] = History[i - 1]
                 /\ Len(History') = Min(Len(History) + 1, HistoryCap)
        /\ (\A j \in JobIds : task'[j] = task[j]) => history' = history
      ]_vars

\* The 51st job has been archived: the first job's entry is gone.
C6_Witness ==
    /\ Len(history) = HistoryCap
    /\ history[1].id = 2
    /\ history[HistoryCap].id = HistoryCap + 1

\* C4: a transfer whose cancel() returned True before all rows were copied
\* is never reported completed (it ends cancelled).
C4_EarlyCancelNeverCompleted ==
    tr_cancel_early => tr_job.status # "completed"

\* One channel scraped again and again while the remote posts and deletes.
NextChannel ==
    \/ (\E rich \in BOOLEAN : RemotePost(rich)) /\ ChannelOnly
    \/ (\E m \in MessageIds : RemoteDelete(m)) /\ ChannelOnly
    \/ (\E fail \in SUBSET MessageIds, cut \in 0..MaxMessageId :
           ScrapeChannel(fail, cut)) /\ ChannelOnly

SpecChannel == Init /\ [][NextChannel]_vars

\* C10: over any sequence of scrapes of a channel, the stored
\* last_message_id never decreases and the stored message_count never
\* decreases.
C10_CursorAndCountNeverDecrease ==
    [][ /\ channel'.last_message_id >= channel.last_message_id
        /\ channel'.message_count >= channel.message_count
      ]_vars

\* A second scrape moved a stored cursor forward.
C10_Witness ==
    /\ clock >= 2
    /\ channel.last_message_id = 3
    /\ channel.message_count = 3
    /\ channel.last_scraped_at = clock

\* The scrape engine and the image downloader on one channel whose
\* messages all carry an attachment, with deletions from the output
\* directory.  A scrape may be cut short by the remote; the downloader is
\* built with max_retries = 1.
InitArchive ==
    /\ InitScrape
    /\ InitDownloadWith(TRUE)
    /\ InitTransferWith(SomeRows, TRUE)
    /\ InitChannel
    /\ InitGuild
    /\ \E width \in 1..MaxConcurrency : InitFetchWith(1, width)

NextArchive ==
    \/ (next_id <= MaxAttachments /\ RemotePost(TRUE)) /\ ChannelOnly
    \/ (\E cut \in 0..MaxAttachments : ScrapeChannel({}, cut)) /\ ChannelOnly
    \/ DownloadRunBegin /\ FetchOnly
    \/ DownloadRunRead /\ FetchOnly
    \/ (\E w \in 1..Len(workers) : WorkerEnters(w)) /\ FetchOnly
    \/ (\E w \in 1..Len(workers), response \in Responses :
           FetchResponds(w, response)) /\ FetchOnly
    \/ ApplyResults /\ FetchOnly
    \/ (\E f \in files : FileDeleted(f)) /\ FetchOnly

SpecArchive == InitArchive /\ [][NextArchive]_vars

\* The image downloader, built with any max_retries and concurrency, on a
\* channel that is scraped completely each time.
InitFetch ==
    /\ InitScrape
    /\ InitDownloadWith(TRUE)
    /\ InitTransferWith(SomeRows, TRUE)
    /\ InitChannel
    /\ InitGuild
    /\ \E retries \in 1..MaxRetries, width \in 1..MaxConcurrency :
          InitFetchWith(retries, width)

NextFetch ==
    \/ (next_id <= MaxAttachments /\ RemotePost(TRUE)) /\ ChannelOnly
    \/ ScrapeChannel({}, Len(ChannelHistory(channel.last_message_id)))
          /\ ChannelOnly
    \/ DownloadRunBegin /\ FetchOnly
    \/ DownloadRunRead /\ FetchOnly
    \/ (\E w \in 1..Len(workers) : WorkerEnters(w)) /\ FetchOnly
    \/ (\E w \in 1..Len(workers), response \in Responses :
           FetchResponds(w, response)) /\ FetchOnly
    \/ ApplyResults /\ FetchOnly
    \/ (\E f \in files : FileDeleted(f)) /\ FetchOnly

SpecFetch == InitFetch /\ [][NextFetch]_vars

\* The values a list of rows holds.
Range(rows) == {rows[i] : i \in 1..Len(rows)}

\* C11: a scrape of a channel with a stored cursor c, when the remote holds
\* k >= 1 messages after c and nothing fails, requests only the messages
\* after c, oldest first, saves exactly those k, reports messages = k, sets
\* last_message_id to the largest of them and adds k to message_count;
\* without a stored cursor it fetches the full history, newest first.
C11_IncrementalScrapeTakesOnlyNewMessages ==
    [][ LET c == channel.last_message_id
            new == {m \in remote : m > c}
            k == Cardinality(new)
        IN  ScrapeChannel({}, Len(ChannelHistory(c))) =>
               /\ ch_result'.cursor = c
               /\ (c # 0 /\ k >= 1) =>
                     /\ ch_result'.fetched = Ascending(new)
                     /\ Range(messages') = Range(messages) \cup new
                     /\ ch_result'.raised = ""
                     /\ ch_result'.messages = k
                     /\ channel'.last_message_id = SetMax(new)
                     /\ channel'.message_count = channel.message_count + k
               /\ c = 0 => ch_result'.fetched = Descending(remote)
      ]_vars

\* A scrape with cursor 1 fetched the two new messages 2 and 3.
C11_Witness ==
    /\ ch_result.cursor = 1
    /\ ch_result.fetched = <<2, 3>>
    /\ ch_result.messages = 2
    /\ channel.last_message_id = 3
    /\ channel.message_count = 3

\* C12: a channel scrape that finds zero new messages succeeds: no error
\* is raised for the channel (so the caller counts it as scraped) and its
\* last_scraped_at is stamped.
C12_EmptyScrapeStampsChannel ==
    [][ (ScrapeChannel({}, 0) /\ ChannelHistory(channel.last_message_id) = <<>>)
           => /\ ch_result'.raised = ""
              /\ channel'.last_scraped_at = clock'
      ]_vars

\* No two rows of a table have the same key: the primary key, and for
\* reactions the message id with the emoji name and id.
NoDuplicateKeys(tables) ==
    /\ \A i, k \in 1..Len(tables.messages) :
          tables.messages[i] = tables.messages[k] => i = k
    /\ \A i, k \in 1..Len(tables.attachments) :
          tables.attachments[i].id = tables.attachments[k].id => i = k
    /\ \A i, k \in 1..Len(tables.reactions) :
          (/\ tables.reactions[i].message_id = tables.reactions[k].message_id
           /\ tables.reactions[i].emoji_name = tables.reactions[k].emoji_name
           /\ tables.reactions[i].emoji_id = tables.reactions[k].emoji_id)
             => i = k

\* The last scrape of the channel got the whole history and saved every
\* message of it, and the remote has not changed since.
ScrapedAndUnchanged ==
    /\ clock >= 1
    /\ ch_result.raised # "HTTPException"
    /\ ch_result.messages = Len(ch_result.fetched)
    /\ ch_result.remote = remote

\* C13: a scrape that follows a scrape with no new remote data in between
\* leaves the numbers of message, attachment and reaction rows unchanged,
\* and no scrape ever creates a second row for a key.
C13_RescrapeAddsNoRows ==
    [][ /\ NoDuplicateKeys(StoredTables')
        /\ (ScrapedAndUnchanged /\ clock' = clock + 1) =>
              /\ Len(messages') = Len(messages)
              /\ Len(attachments') = Len(attachments)
              /\ Len(reactions') = Len(reactions)
      ]_vars

\* Two scrapes in a row of a channel that holds three stored messages, two
\* of them with an attachment and a reaction.
C13_Witness ==
    /\ clock >= 2
    /\ ScrapedAndUnchanged
    /\ ch_result.fetched = <<>>
    /\ Len(messages) = 3
    /\ Len(attachments) = 2
    /\ Len(reactions) = 2

\* C14: a scrape leaves download_status, local_path and content_hash of
\* every attachment that is already stored as they are.
C14_RescrapeKeepsDownloadState ==
    [][ clock' = clock + 1 =>
           \A i \in 1..Len(attachments) :
              \E k \in 1..Len(attachments') :
                 /\ attachments'[k].id = attachments[i].id
                 /\ attachments'[k].download_status = attachments[i].download_status
                 /\ attachments'[k].local_path = attachments[i].local_path
                 /\ attachments'[k].content_hash = attachments[i].content_hash
      ]_vars

\* C15: under any sequence of scrape runs and download runs an attachment's
\* download_status changes only from pending to downloaded, failed or
\* skipped, and a downloaded attachment whose file exists never changes.
C15_DownloadStatusOnlyLeavesPending ==
    [][ \A i \in 1..Len(attachments) : \A k \in 1..Len(attachments') :
           (/\ attachments'[k].id = attachments[i].id
            /\ attachments'[k].download_status # attachments[i].download_status)
              => \/ /\ attachments[i].download_status = "pending"
                    /\ attachments'[k].download_status
                          \in {"downloaded", "failed", "skipped"}
                 \/ /\ attachments[i].download_status = "downloaded"
                    /\ attachments[i].local_path \notin files
      ]_vars

\* The stored row of an attachment.
AttachmentRow(rows, a) == rows[CHOOSE i \in 1..Len(rows) : rows[i].id = a]

\* C16: an attachment whose fetch returned 404 is stored as skipped once the
\* batch's results are applied, and a run that loads an attachment stored
\* as skipped makes no request for it.
C16_NotFoundIsStoredAsSkipped ==
    [][ /\ ApplyResults =>
              \A w \in 1..Len(workers) :
                 workers[w].outcome = "not_found" =>
                    AttachmentRow(attachments', batch[w].id).download_status
                       = "skipped"
        /\ \A w \in 1..Len(workers) :
              (WorkerEnters(w) /\ batch[w].download_status = "skipped")
                 => workers'[w].pc = "done"
      ]_vars

\* C17: for an attachment with only a primary url the run makes at most
\* max_retries requests; after n failing responses the attachment is
\* downloaded when n < max_retries and its final status is downloaded,
\* otherwise max_retries requests were made and its final status is failed.
C17_RetryCeilingIsExact ==
    [][ ApplyResults =>
           \A w \in 1..Len(workers) :
              ~batch[w].proxy_url =>
                 /\ workers[w].fetches <= max_retries
                 /\ workers[w].outcome = "downloaded" =>
                       /\ workers[w].fetches - 1 < max_retries
                       /\ AttachmentRow(attachments', batch[w].id).download_status
                             = "downloaded"
                 /\ workers[w].outcome = "exhausted" =>
                       /\ workers[w].fetches = max_retries
                       /\ AttachmentRow(attachments', batch[w].id).download_status
                             = "failed"
      ]_vars

\* The part of C17 that is about the number of requests alone.
RetryCountIsExact ==
    \A w \in 1..Len(workers) :
       ~batch[w].proxy_url =>
          /\ workers[w].fetches <= max_retries
          /\ workers[w].outcome = "downloaded" => workers[w].fetches <= max_retries
          /\ workers[w].outcome = "exhausted" => workers[w].fetches = max_retries

\* C18: when a batch's results are applied, every attachment whose download
\* failed (retries exhausted or an unexpected exception) is stored as failed
\* and every attachment that was fetched is stored as downloaded with its
\* local_path and content_hash.
C18_BatchResultsAreStored ==
    [][ ApplyResults =>
           \A w \in 1..Len(workers) :
              LET row == AttachmentRow(attachments', batch[w].id)
              IN  /\ workers[w].outcome \in {"exhausted", "exception"} =>
                        row.download_status = "failed"
                  /\ workers[w].outcome = "downloaded" =>
                        /\ row.download_status = "downloaded"
                        /\ row.local_path # 0
                        /\ row.content_hash # 0
      ]_vars

\* C19: for an attachment stored as downloaded whose file exists, a download
\* run makes no request, counts it as already existing and leaves its
\* stored status, local_path and content_hash unchanged.
C19_DownloadedFileIsLeftAlone ==
    [][ /\ \A w \in 1..Len(workers) :
              (/\ WorkerEnters(w)
               /\ batch[w].download_status = "downloaded"
               /\ batch[w].local_path \in files)
                 => /\ workers'[w].pc = "done"
                    /\ workers'[w].outcome = "exists"
                    /\ workers'[w].fetches = 0
                    /\ stats'.already_exists = stats.already_exists + 1
        /\ ApplyResults =>
              \A w \in 1..Len(workers) :
                 workers[w].outcome = "exists" =>
                    /\ workers[w].fetches = 0
                    /\ AttachmentRow(attachments', batch[w].id)
                          = AttachmentRow(attachments, batch[w].id)
      ]_vars

\* A second run found the file of a downloaded attachment and ended.
C19_Witness ==
    /\ runs = 2
    /\ dr_pc = "idle"
    /\ stats.total = 1
    /\ stats.already_exists = 1
    /\ attachments[1].download_status = "downloaded"
    /\ attachments[1].local_path \in files

\* The _download_attachment tasks that hold a permit.
InFlight == {w \in 1..Len(workers) : workers[w].pc = "fetching"}

\* C20: the fetches in progress never exceed the concurrency width, every
\* fetch that ends gives its permit back, and all permits are available
\* again when the batch is over.
C20_FetchesBoundedByWidth ==
    /\ Cardinality(InFlight) <= concurrency
    /\ permits = concurrency - Cardinality(InFlight)
    /\ dr_pc = "idle" => permits = concurrency

\* With width 1 one fetch is in progress and another task waits for the
\* permit.
C20_Witness ==
    /\ concurrency = 1
    /\ permits = 0
    /\ Cardinality(InFlight) = 1
    /\ \E w \in 1..Len(workers) : workers[w].pc = "queued"

(***************************************************************************)
(* The transfer engine's copy                                              *)
(***************************************************************************)
TargetHoldsSource == \A t \in Tables : tgt_rows[t] = src_rows[t]

\* C21: during a transfer the tables are copied in the order of TABLES: when
\* a batch of a table is written to the target, the job has written every
\* row of every earlier table, the target holds them all, and of the table
\* itself exactly the rows before the batch have been written.
C21_TablesCopiedInOrder ==
    [][(tr_task = "write" /\ tr_job'.rows_transferred > tr_job.rows_transferred)
         => /\ \A u \in 1..(tr_table - 1) : tgt_rows[u] = src_rows[u]
            /\ tr_job.rows_transferred
                  = SumRows(src_rows, tr_table - 1) + tr_offset]_vars

\* A first transfer, of a source whose tables all hold rows, has written a
\* batch of the last table.
C21_Witness ==
    /\ ~tr_restart
    /\ \A t \in Tables : src_rows[t] > 0
    /\ tr_table = NumTables
    /\ tr_job.status = "running"
    /\ tr_job.rows_transferred > SumRows(src_rows, NumTables - 1)

\* C22: a transfer that runs to completion leaves the target with the
\* content of the source, whatever an interrupted transfer before it had
\* already copied, which is what one uninterrupted transfer leaves; and no
\* step of a transfer changes a target that already holds that content.
C22_RestartedTransferSameContent ==
    [][/\ (/\ tr_task # "done" /\ tr_task' = "done"
           /\ tr_job'.status = "completed" /\ ~cancel_event)
          => \A t \in Tables : tgt_rows'[t] = src_rows[t]
       /\ TargetHoldsSource => tgt_rows' = tgt_rows]_vars

\* A transfer started after an interrupted one, which had copied some table
\* and not some other, has run to completion.
C22_Witness ==
    /\ tr_restart
    /\ ~cancel_event
    /\ tr_job.status = "completed"
    /\ tr_job.rows_transferred = SumRows(src_rows, NumTables)
    /\ TargetHoldsSource

\* C23: a transfer one of whose phases failed (counting rows, copying a
\* table, repairing the sequence) ends failed with the error recorded, never
\* completed.
C23_FailedPhaseEndsFailed ==
    (tr_task = "done" /\ tr_failed_phase # "")
        => tr_job.status = "failed" /\ tr_job.error # ""

\* The batches committed before a failure remain in the target: the failing
\* step leaves the target as it is.
FailureKeepsCommittedBatches ==
    [][tr_failed_phase' # tr_failed_phase /\ tr_failed_phase' # ""
         => tgt_rows' = tgt_rows]_vars

(***************************************************************************)
(* Refused starts                                                          *)
(***************************************************************************)
\* C24: a start refused for a failed precondition (start_transfer with a
\* name that is not a registered store, start_download with no attachments
\* path) raises at once and leaves the manager as it was: no job allocated,
\* the same current job, no task launched, is_busy unchanged.
C24_RefusedStartChangesNothing ==
    [][ /\ (~TrIsBusy /\ StartTransfer(FALSE))
            => /\ tr_raised' = "KeyError"
               /\ tr_job' = tr_job /\ tr_task' = tr_task
               /\ cancel_event' = cancel_event
               /\ TrIsBusy' = TrIsBusy
        /\ (~DlIsBusy /\ ~attachments_path /\ StartDownload)
            => /\ dl_raised' = "NoAttachmentsPath"
               /\ dl_job' = dl_job /\ dl_task' = dl_task
               /\ DlIsBusy' = DlIsBusy
      ]_vars

\* start_transfer was refused for an unknown store name after a transfer
\* had completed: the completed job is still the current job.
C24_Witness ==
    /\ tr_raised = "KeyError"
    /\ tr_job.status = "completed"
    /\ tr_task = "done"

\* start_download was refused on a manager built without attachments path.
RefusedDownloadStart ==
    /\ dl_raised = "NoAttachmentsPath"
    /\ dl_job = DownloadJob("none")
    /\ dl_task = "none"

(***************************************************************************)
(* Failures while a channel is scraped                                     *)
(***************************************************************************)
\* C27: a message whose save fails does not fail the channel scrape: a
\* scrape that was delivered the whole history it asked for, some messages
\* of which could not be saved, returns its stats and raises nothing.
C27_MessageFailureDoesNotFailChannel ==
    (/\ Len(ch_result.fetched) > 0
     /\ ch_result.raised # "HTTPException")
        => ch_result.raised = ""

(***************************************************************************)
(* The scrape manager with the engine of each job followed channel by      *)
(* channel: _run_scrape goes on when scrape_guild has returned or raised.  *)
(***************************************************************************)
NextGuild ==
    \/ StartScrapeUpTo(MaxGuildJobs) /\ ScrapeOnly
    \/ Cancel /\ ScrapeOnly
    \/ (\E j \in JobIds : RunScrapeBegin(j)) /\ ScrapeOnly
    \/ (\E j \in JobIds : RunScrapeConnected(j)) /\ ScrapeOnly
    \/ (\E j \in JobIds : RunScrapeEarlyReturn(j)) /\ ScrapeOnly
    \/ (\E j \in JobIds : EngineOf(j).pc = "returned" /\ RunScrapeCompleted(j))
          /\ ScrapeOnly
    \/ (\E j \in JobIds : EngineOf(j).pc = "raised" /\ RunScrapeFailed(j))
          /\ ScrapeOnly
    \/ (\E j \in JobIds : RunScrapeFinallyClosed(j)) /\ ScrapeOnly
    \/ (\E b \in 1..Len(bots) : BotOnReady(b)) /\ ScrapeOnly
    \/ (\E b \in 1..Len(bots) : BotStartFails(b)) /\ ScrapeOnly
    \/ (\E k \in 1..Len(force_close) : ForceCloseBegin(k)) /\ ScrapeOnly
    \/ (\E k \in 1..Len(force_close) : ForceCloseEnd(k)) /\ ScrapeOnly
    \/ (\E j \in JobIds, found \in BOOLEAN, total \in 0..MaxChannels,
           fails \in BOOLEAN : GuildScrapeBegin(j, found, total, fails))
          /\ GuildOnly
    \/ (\E j \in JobIds, outcome \in ChannelOutcomes :
           GuildScrapeChannel(j, outcome, IF outcome = "ok" THEN 1 ELSE 0))
          /\ GuildOnly
    \/ (\E j \in JobIds, fails \in BOOLEAN : GuildScrapeEnd(j, fails))
          /\ GuildOnly

SpecGuild == Init /\ [][NextGuild]_vars

\* One job on a guild of many channels, with no failure but in the channels.
NextErrors ==
    \/ StartScrapeUpTo(1) /\ ScrapeOnly
    \/ (\E j \in JobIds : RunScrapeBegin(j)) /\ ScrapeOnly
    \/ (\E b \in 1..Len(bots) : BotOnReady(b)) /\ ScrapeOnly
    \/ (\E j \in JobIds : RunScrapeConnected(j)) /\ ScrapeOnly
    \/ (\E j \in JobIds : GuildScrapeBegin(j, TRUE, ManyChannels, FALSE))
          /\ GuildOnly
    \/ (\E j \in JobIds, outcome \in ChannelOutcomes :
           GuildScrapeChannel(j, outcome, IF outcome = "ok" THEN 1 ELSE 0))
          /\ GuildOnly
    \/ (\E j \in JobIds : GuildScrapeEnd(j, FALSE)) /\ GuildOnly
    \/ (\E j \in JobIds : EngineOf(j).pc = "returned" /\ RunScrapeCompleted(j))
          /\ ScrapeOnly
    \/ (\E j \in JobIds : RunScrapeFinallyClosed(j)) /\ ScrapeOnly

SpecErrors == Init /\ [][NextErrors]_vars

(***************************************************************************)
(* The scrape engine's result and the Guild row                            *)
(***************************************************************************)
\* C25: the error strings retained on a job never exceed a fixed cap,
\* however many channels fail: no job holds more than the 20 strings the
\* download summary keeps.
C25_JobErrorsAreCapped ==
    \A j \in JobIds : jobs[j].errors <= SUMMARY_ERRORS

\* The steps in which job j's scrape_guild call returns its stats
Returns(j) ==
    /\ EngineOf(j).pc = "channels"
    /\ j <= Len(engines')
    /\ engines'[j].pc = "returned"

\* C26: scrape_count grows by exactly one when a scrape runs to completion,
\* and by nothing for a scrape job that was cancelled; no other step changes
\* it.
C26_ScrapeCountCountsCompletedScrapes ==
    [][/\ \A j \in JobIds :
            Returns(j) =>
               guild'.scrape_count = guild.scrape_count
                  + (IF jobs[j].status = CANCELLED THEN 0 ELSE 1)
       /\ (\A j \in JobIds : ~Returns(j))
            => guild'.scrape_count = guild.scrape_count]_vars

\* The steps in which a channel of job j's scrape raises
ChannelFails(j) ==
    /\ EngineOf(j).pc = "channels"
    /\ EngineOf(j).next <= EngineOf(j).total
    /\ j <= Len(engines')
    /\ engines'[j].channels_scraped = EngineOf(j).channels_scraped
    /\ engines'[j] # EngineOf(j)

ScopeExits(j) ==
    /\ j <= Len(engines')
    /\ EngineOf(j).session # "closed"
    /\ engines'[j].session = "closed"

\* C29: a session scope left normally commits: the Guild row and the
\* increment of its scrape_count are in the store for every later session;
\* a scope left by an exception rolls back: the store is as it was, the
\* exception reaches the caller; the session is closed in both cases.
C29_ScopeCommitsOrRollsBack ==
    [][\A j \in JobIds :
         ScopeExits(j) =>
            IF engines'[j].raised = ""
            THEN /\ guild'.exists
                 /\ guild'.scrape_count = guild.scrape_count + 1
                 /\ engines'[j].pc = "returned"
            ELSE /\ guild' = guild
                 /\ engines'[j].pc = "raised"]_vars

\* A scope was left by an exception with the increment uncommitted, after
\* an earlier scope had committed its own: the store holds the one only.
C29_Witness ==
    /\ Len(engines) = 2
    /\ engines[1].pc = "returned"
    /\ engines[2].pc = "raised"
    /\ engines[2].session = "closed"
    /\ engines[2].next > engines[2].total
    /\ guild.exists
    /\ guild.scrape_count = 1

(***************************************************************************)
(* The repositories' upsert (storage/repositories.py), called with any     *)
(* record in any order on the tables of one store.                         *)
(***************************************************************************)
UpsertIds == 1..MaxUpsertIds

\* Attachment records as the scraper and the tests build them
AttachmentInputs ==
    {[ScrapedAttachment(a, a) EXCEPT !.download_status = status,
                                     !.local_path = IF status = "downloaded"
                                                    THEN a ELSE 0] :
        a \in UpsertIds, status \in {"pending", "downloaded"}}

\* Reaction records on one message: a unicode emoji (emoji_id None, 0) and
\* two custom emojis of the same name.
ReactionInputs ==
    {[message_id |-> 1, emoji_name |-> emoji[1], emoji_id |-> emoji[2],
      count |-> count] :
        emoji \in {<<"thumbsup", 0>>, <<"party", 7>>, <<"party", 8>>},
        count \in 1..MaxCount}

UpsertOnly ==
    UNCHANGED <<scrapeVars, downloadVars, transferVars, fetchVars, guildVars,
                remote, remote_rich, next_id, channel, clock, ch_result>>

MessageRepositoryUpsert(m) ==
    /\ messages' = MessageUpsert(messages, m)
    /\ UNCHANGED <<attachments, reactions>>

AttachmentRepositoryUpsert(attachment) ==
    /\ attachments' = AttachmentUpsert(attachments, attachment)
    /\ UNCHANGED <<messages, reactions>>

ReactionRepositoryUpsert(reaction) ==
    /\ reactions' = ReactionUpsert(reactions, reaction)
    /\ UNCHANGED <<messages, attachments>>

NextUpsert ==
    \/ (\E m \in UpsertIds : MessageRepositoryUpsert(m)) /\ UpsertOnly
    \/ (\E attachment \in AttachmentInputs :
           AttachmentRepositoryUpsert(attachment)) /\ UpsertOnly
    \/ (\E reaction \in ReactionInputs :
           ReactionRepositoryUpsert(reaction)) /\ UpsertOnly

SpecUpsert == Init /\ [][NextUpsert]_vars

SameReaction(a, b) ==
    /\ a.message_id = b.message_id
    /\ a.emoji_name = b.emoji_name
    /\ a.emoji_id = b.emoji_id

\* C30: an upsert of a record whose key is stored updates the row in place
\* and adds none: after any sequence of upserts every table holds at most
\* one row per key (the id; for reactions message id, emoji name and emoji
\* id), an upsert adds a row only for a new key, and after the upsert of a
\* reaction its row holds the count just given.
C30_UpsertKeepsOneRowPerKey ==
    [][/\ NoDuplicateKeys([messages |-> messages', attachments |-> attachments',
                           reactions |-> reactions'])
       /\ \A m \in UpsertIds :
            (messages' = MessageUpsert(messages, m) /\ m \in Range(messages))
               => messages' = messages
       /\ \A a \in AttachmentInputs :
            (/\ attachments' = AttachmentUpsert(attachments, a)
             /\ \E i \in 1..Len(attachments) : attachments[i].id = a.id)
               => Len(attachments') = Len(attachments)
       /\ \A r \in ReactionInputs :
            reactions' = ReactionUpsert(reactions, r)
               => /\ \E i \in 1..Len(reactions') :
                        /\ SameReaction(reactions'[i], r)
                        /\ reactions'[i].count = r.count
                  /\ Len(reactions') = Len(reactions) +
                        (IF \E i \in 1..Len(reactions) :
                               SameReaction(reactions[i], r)
                         THEN 0 ELSE 1)]_vars

\* Upserts have stored every message and attachment and the three
\* reactions of the message, two of them custom emojis of one name, the
\* unicode one with the largest count.
C30_Witness ==
    /\ Len(reactions) = 3
    /\ reactions[1].emoji_id = 0
    /\ reactions[1].count = MaxCount
    /\ reactions[2].emoji_name = reactions[3].emoji_name
    /\ Len(messages) = MaxUpsertIds
    /\ Len(attachments) = MaxUpsertIds

(***************************************************************************)
(* The cursor of a channel                                                 *)
(***************************************************************************)
\* C31: a channel scrape that saved at least one message and returned
\* leaves last_message_id at the largest message id it saved and
\* first_message_id at the smallest message id saved for the channel (by
\* this scrape, or the first id stored before it), in whatever order
\* the messages were delivered and whether or not the channel row existed
\* before the scrape.
C31_CursorIsMinAndMaxObserved ==
    [][ \A fail \in SUBSET MessageIds, cut \in 0..MaxMessageId :
           (ScrapeChannel(fail, cut) /\ ch_result'.raised = "") =>
              LET saved == Range(ch_result'.fetched) \ fail
                  before == {channel.first_message_id} \ {0}
              IN  /\ channel'.last_message_id = SetMax(saved)
                  /\ channel'.first_message_id = SetMin(saved \cup before)
      ]_vars

(***************************************************************************)
(* The sequence of the target's reactions table                            *)
(***************************************************************************)
\* C32: when a transfer into a PostgreSQL target has ended with status
\* completed, the target's reaction sequence stands at or above the largest
\* reaction id the target holds, so the next generated id is a new one.
C32_CompletedTransferRepairedSequence ==
    (tgt_postgres /\ tr_job.status = "completed")
        => tgt_sequence >= MaxReactionId(tgt_rows)

\* Every completed transfer whose setval statement ran did repair it.
RanSetvalRepairedSequence ==
    (tgt_postgres /\ tr_job.status = "completed" /\ tr_failed_phase # "reset")
        => tgt_sequence >= MaxReactionId(tgt_rows)

\* C33: at the end of a channel scrape that returned, every message it
\* counted as scraped is a row of the store, and the stored cursor
\* last_message_id is not above any fetched message that is not stored.
C33_CountedMessagesArePersisted ==
    [][ \A fail \in SUBSET MessageIds, cut \in 0..MaxMessageId :
           (ScrapeChannel(fail, cut) /\ ch_result'.raised = "") =>
              LET fetched == Range(ch_result'.fetched)
                  counted == fetched \ fail
              IN  /\ counted \subseteq Range(messages')
                  /\ \A m \in fetched \ Range(messages') :
                        channel'.last_message_id <= m
      ]_vars

\* The same for the scrapes in which no save failed: they lose nothing.
ScrapeWithoutFailurePersistsAll ==
    [][ \A cut \in 0..MaxMessageId :
           (ScrapeChannel({}, cut) /\ ch_result'.raised = "") =>
              Range(ch_result'.fetched) \subseteq Range(messages')
      ]_vars

(***************************************************************************)
(* The end of a scrape engine task                                         *)
(***************************************************************************)
\* A step of job j's _run_scrape task after its engine call: the cancel
\* branch's "self._bot = None", the except clauses and the finally block.
CleansUp(j) ==
    /\ task[j] \in {"early_close", "scraping", "finally_close"}
    /\ task'[j] # task[j]

\* C34: the cleanup of an ending scrape engine task closes only the bot
\* session its own job opened and clears only the reference to it: the
\* session of another job is left as it is, and self._bot is left alone
\* when it holds another job's bot.
C34_CleanupTouchesOnlyOwnSession ==
    [][ \A j \in JobIds :
           CleansUp(j) =>
              /\ \A b \in 1..Len(bots) : bots'[b] # bots[b] => b = j
              /\ bot' # bot => bot = j
      ]_vars

\* C35: every scrape job that reaches a terminal status is eventually
\* archived in the history and its engine task eventually ends, also a job
\* that cancel() marked cancelled while its task was waiting for the bot to
\* become ready.
C35_TerminalJobIsArchivedAndEnds ==
    \A j \in 1..MaxJobs :
       (j \in JobIds /\ jobs[j].status \in Terminal)
          ~> (/\ j \in JobIds
              /\ task[j] = "done"
              /\ \E i \in 1..Len(history) : history[i].id = j)

(***************************************************************************)
(* The download manager with fair scheduling: the event loop runs the      *)
(* _run_download task whenever it is ready to resume, and a call of        *)
(* download_all_images returns or raises.                                  *)
(***************************************************************************)
DownloadTasks ==
    \/ RunDownloadBegin /\ DownloadTurn
    \/ RunDownloadCompleted /\ DownloadTurn
    \/ RunDownloadFailed /\ DownloadTurn
    \/ RunDownloadCancelled /\ DownloadTurn

FairSpecManagers ==
    InitManagers /\ [][NextManagers]_vars /\ WF_vars(DownloadTasks)

DownloadEndedCancelled ==
    /\ dl_job.status = "cancelled"
    /\ dl_job.finished_at
    /\ ~DlIsBusy

\* C36: after DownloadManager.cancel() has returned true (it has called
\* cancel() on the running task), the job eventually has status cancelled
\* with finished_at set and the manager is not busy, also when the job was
\* still pending and its task had not run its first step.
C36_CancelledDownloadEndsCancelled ==
    dl_must_cancel ~> DownloadEndedCancelled

\* The same for the cancel() calls that reach a task inside its try block.
CancelOfRunningDownloadEndsCancelled ==
    (dl_must_cancel /\ dl_task = "downloading") ~> DownloadEndedCancelled

(***************************************************************************)
(* The counters of a download run                                          *)
(***************************************************************************)
Processed(s) == s.downloaded + s.skipped + s.failed + s.already_exists

\* C37: when a download run has ended normally, downloaded + already_exists
\* + skipped + failed equals total: every image attachment the run counted
\* was visited once and counted in one outcome counter, and no other was.
C37_OutcomesSumToTotal ==
    dr_pc = "idle" => Processed(stats) = stats.total

\* Every attachment of a batch is counted in exactly one outcome counter:
\* a run whose batch is what it had counted ends with the sum at total.
BatchIsCountedOnce ==
    [][ (ApplyResults /\ Len(batch) = stats.total)
           => Processed(stats') = stats'.total
      ]_vars

(***************************************************************************)
(* The progress of a scrape job: one job, started for the whole guild or   *)
(* for a subset of its channels (every selected id is a text channel of    *)
(* the guild), whose engine walks the channels and then the threads nested *)
(* under them; the engine fails only inside the channels.                  *)
(***************************************************************************)
\* The messages _scrape_channel saves in one pass: none, one, or a full
\* batch (so that one progress report was made inside the pass).
SavedChoices == {0, 1, batch_size}

\* The passes the loops of the engine make for job j: the channels and
\* threads of the guild, or the selected channels and the threads under
\* them.
Walked(j) ==
    IF jobs[j].channel_ids = 0
    THEN 0..MaxChannels
    ELSE {jobs[j].channel_ids + threads : threads \in 0..MaxThreads}

NextProgress ==
    \/ (\E selected \in 0..MaxSelected : StartScrapeWith(1, selected))
          /\ ScrapeOnly
    \/ (\E j \in JobIds : RunScrapeBegin(j)) /\ ScrapeOnly
    \/ (\E b \in 1..Len(bots) : BotOnReady(b)) /\ ScrapeOnly
    \/ (\E j \in JobIds : RunScrapeConnected(j)) /\ ScrapeOnly
    \/ (\E j \in JobIds : \E total \in Walked(j) :
           GuildScrapeBegin(j, TRUE, total, FALSE)) /\ GuildOnly
    \/ (\E j \in JobIds, outcome \in ChannelOutcomes, saved \in SavedChoices :
           GuildScrapeChannel(j, outcome, saved)) /\ GuildOnly
    \/ (\E j \in JobIds : GuildScrapeEnd(j, FALSE)) /\ GuildOnly
    \/ (\E j \in JobIds : EngineOf(j).pc = "returned" /\ RunScrapeCompleted(j))
          /\ ScrapeOnly
    \/ (\E j \in JobIds : RunScrapeFinallyClosed(j)) /\ ScrapeOnly

SpecProgress == Init /\ [][NextProgress]_vars

\* C38: the progress counter messages_scraped of a scrape job never
\* decreases from one step of its engine to the next, also when a channel
\* fails after progress was reported for it and when the final result is
\* recorded.
C38_MessagesScrapedNeverDecreases ==
    [][ \A j \in JobIds :
           jobs'[j].messages_scraped >= jobs[j].messages_scraped
      ]_vars

\* As long as every pass returns, the counter does not decrease.
MessagesScrapedGrowsWithoutErrors ==
    [][ \A j \in JobIds :
           (/\ EngineOf(j).errors = 0
            /\ j <= Len(engines') => engines'[j].errors = 0)
              => jobs'[j].messages_scraped >= jobs[j].messages_scraped
      ]_vars

\* C39: in every state of a scrape job that was started with a subset of
\* channel ids, progress.channels_done is at most progress.channels_total,
\* also when threads under the selected channels are scraped.
C39_ChannelsDoneAtMostTotal ==
    \A j \in JobIds :
       jobs[j].channel_ids # 0
          => jobs[j].channels_done <= jobs[j].channels_total

\* The same for the jobs that scrape the whole guild, once they are
\* completed.
WholeGuildDoneAtMostTotal ==
    \A j \in JobIds :
       (jobs[j].channel_ids = 0 /\ jobs[j].status = COMPLETED)
          => jobs[j].channels_done <= jobs[j].channels_total

(***************************************************************************)
(* The counters of a transfer job                                          *)
(***************************************************************************)
\* C40: in every state of a transfer job the tables counted in tables_done
\* (the first tables_done tables of TABLES) have all their source rows in
\* the target, so a table whose copy was cut short by cancellation is not
\* counted; and a completed job has tables_done = 6 and rows_transferred =
\* total_rows.
C40_TablesDoneCountsCopiedTables ==
    /\ \A t \in 1..tr_job.tables_done : tgt_rows[t] = src_rows[t]
    /\ tr_job.status = "completed" =>
          /\ tr_job.tables_done = NumTables
          /\ tr_job.rows_transferred = tr_job.total_rows

\* The same for the jobs whose cancel() was never called.
UncancelledTablesDoneCountsCopiedTables ==
    ~cancel_event =>
       /\ \A t \in 1..tr_job.tables_done : tgt_rows[t] = src_rows[t]
       /\ tr_job.status = "completed" =>
             /\ tr_job.tables_done = NumTables
             /\ tr_job.rows_transferred = tr_job.total_rows

====
